---------------------------- MODULE Spec2Model ----------------------------
(***************************************************************************)
(* A model of the DLC pensioner aggregation pipeline:                      *)
(*   - the pincode and age classifiers (app.py, dlc_bank_analysis_fixed.py)*)
(*   - the top-N projections (sorted(..., reverse=True)[:N])               *)
(*   - analyze_dlc_by_bank_pincode, the fold of rows into buckets          *)
(*   - the two rollups served by /api/dlc-bank-pincode-data                *)
(*   - the summary store: save_dlc_analysis_data and the latest-read       *)
(* Strings whose characters matter (pincodes, file names) are sequences of *)
(* one-character strings.                                                  *)
(***************************************************************************)
EXTENDS Integers, Sequences, FiniteSets, TLC

VARIABLES
    call,               \* pure-function harness: the function called and its arguments
    ret,                \* pure-function harness: its return value, or Pending
    now,                \* the wall clock, datetime.now(): [year, sec]
    profile,            \* the input domain of a pipeline run: which cells its rows hold
    input,              \* the source folder's files, when they are fixed in advance
    cursor,             \* position of the run in input: [file, row]
    pc,                 \* position of analyze_dlc_by_bank_pincode
    runs_done,          \* pipeline runs finished so far
    files_left,         \* files of excel_files not yet visited
    rows_read,          \* rows read so far by the run
    bank_pincode_data,  \* the run's buckets, an insertion-ordered dict
    total_processed,    \* the run's total_processed
    produced,           \* history: the complete_data of every finished run
    run_started,        \* history: the clock's year when the run in progress started
    savers,             \* per process in save_dlc_analysis_data: position and locals
    store,              \* the working directory: file name -> content
    response,           \* the last response of GET /api/dlc-bank-pincode-data, with its handler
    all_data,           \* ExcelDataProcessor.process_excel_files: the records collected
    processed_data,     \* what process_excel_files returned, or NoAnalysis
    pensioners          \* app.py: the rows of the pensioners table of the database

pureVars == <<call, ret>>

excelVars == <<all_data, processed_data>>

dbVars == <<pensioners>>

runVars == <<profile, input, cursor, pc, runs_done, files_left, rows_read,
             bank_pincode_data, total_processed, produced, run_started>>

vars == <<call, ret, now, profile, input, cursor, pc, runs_done, files_left, rows_read,
          bank_pincode_data, total_processed, produced, run_started, savers, store, response,
          all_data, processed_data, pensioners>>

(***************************************************************************)
(* Bounds of the model.                                                    *)
(***************************************************************************)
MaxPinLen == 5      \* longest pincode string given to a classifier
FirstYear == 2024   \* first value of datetime.now().year
YearSpan == 1       \* the clock's year ranges over FirstYear..FirstYear+YearSpan
MinAge == 57        \* birth years range over FirstYear-MaxAge..FirstYear-MinAge
MaxAge == 83
MaxBuckets == 11    \* most buckets given to a top-N projection
SmallN == 2         \* a top-N size small enough to cut short lists
MaxRows == 4        \* rows read by a run over the wide input domains
MaxRowsDeep == 6    \* rows read by a run over the one-pincode input domain
MaxFiles == 2       \* files in the source folder
MaxRerunFiles == 1  \* files in the source folder of the repeated run
MaxRerunRows == 2   \* rows in each of them
MaxBatchFiles == 2  \* files in the source folder of the recorded run
MaxBatchRows == 3   \* rows in all of them together
MaxRuns == 2        \* processes that save into the same folder
FirstSecond == 8    \* the clock's second when the first of them may start
LastSecond == 10    \* the clock's last second

(***************************************************************************)
(* Generic helpers.                                                        *)
(***************************************************************************)
Min(a, b) == IF a <= b THEN a ELSE b

Range(s) == {s[i] : i \in DOMAIN s}

RECURSIVE SeqsUpTo(_, _)
SeqsUpTo(S, n) ==
    IF n = 0 THEN {<<>>}
    ELSE LET shorter == SeqsUpTo(S, n - 1)
         IN  shorter \cup {Append(s, c) : s \in {t \in shorter : Len(t) = n - 1}, c \in S}

\* the values of datetime.now().year
Years == FirstYear..(FirstYear + YearSpan)

\* the return value of a call of the pure-function harness
Pending == [status |-> "pending"]

Returned(v) == [status |-> "returned", value |-> v]

HasReturned == ret.status = "returned"

\* s[:n] of Python
Take(s, n) == SubSeq(s, 1, Min(n, Len(s)))

\* s[n:] of Python (n >= 0)
Drop(s, n) == SubSeq(s, n + 1, Len(s))

(***************************************************************************)
(* Python's str.replace('.0', ''): every non-overlapping occurrence, found *)
(* left to right, is removed.                                              *)
(***************************************************************************)
RECURSIVE ReplaceDotZero(_)
ReplaceDotZero(s) ==
    IF Len(s) = 0 THEN <<>>
    ELSE IF Len(s) >= 2 /\ s[1] = "." /\ s[2] = "0" THEN ReplaceDotZero(Drop(s, 2))
    ELSE <<s[1]>> \o ReplaceDotZero(Tail(s))

(***************************************************************************)
(* Python's int(str): surrounding whitespace is stripped, one sign is      *)
(* allowed, then decimal digits, single underscores allowed between        *)
(* digits.  Anything else raises ValueError.                               *)
(***************************************************************************)
Digits == {"0", "1", "2", "3", "4", "5", "6", "7", "8", "9"}

DigitVal(c) ==
    CASE c = "0" -> 0 [] c = "1" -> 1 [] c = "2" -> 2 [] c = "3" -> 3
      [] c = "4" -> 4 [] c = "5" -> 5 [] c = "6" -> 6 [] c = "7" -> 7
      [] c = "8" -> 8 [] c = "9" -> 9

ValueError == [ok |-> FALSE, val |-> 0]

RECURSIVE LStrip(_)
LStrip(s) == IF Len(s) > 0 /\ s[1] = " " THEN LStrip(Tail(s)) ELSE s

RECURSIVE RStrip(_)
RStrip(s) == IF Len(s) > 0 /\ s[Len(s)] = " " THEN RStrip(SubSeq(s, 1, Len(s) - 1)) ELSE s

RECURSIVE DigitsVal(_)
DigitsVal(s) ==
    IF Len(s) = 0 THEN 0
    ELSE IF s[Len(s)] = "_" THEN DigitsVal(SubSeq(s, 1, Len(s) - 1))
    ELSE 10 * DigitsVal(SubSeq(s, 1, Len(s) - 1)) + DigitVal(s[Len(s)])

WellFormedDigits(s) ==
    /\ Len(s) > 0
    /\ \A i \in DOMAIN s : s[i] \in Digits \cup {"_"}
    /\ s[1] # "_" /\ s[Len(s)] # "_"
    /\ \A i \in 1..(Len(s) - 1) : ~(s[i] = "_" /\ s[i + 1] = "_")

ParseInt(s) ==
    LET t == RStrip(LStrip(s))
        signed == Len(t) > 0 /\ t[1] \in {"+", "-"}
        body == IF signed THEN Tail(t) ELSE t
    IN  IF ~WellFormedDigits(body) THEN ValueError
        ELSE [ok |-> TRUE,
              val |-> IF signed /\ t[1] = "-" THEN 0 - DigitsVal(body) ELSE DigitsVal(body)]

(***************************************************************************)
(* An if/elif chain of range tests: the first range, in declaration order, *)
(* that contains n decides; the else branch gives the default.             *)
(***************************************************************************)
InRange(r, n) == r.lo <= n /\ n <= r.hi

ElifChain(ranges, n, default) ==
    IF \E i \in DOMAIN ranges : InRange(ranges[i], n)
    THEN LET first == CHOOSE i \in DOMAIN ranges :
                          /\ InRange(ranges[i], n)
                          /\ \A j \in 1..(i - 1) : ~InRange(ranges[j], n)
         IN  ranges[first].name
    ELSE default

R(lo, hi, name) == [lo |-> lo, hi |-> hi, name |-> name]

(***************************************************************************)
(* app.py get_state_from_pincode.                                          *)
(***************************************************************************)
app_state_ranges ==
    << R(110, 140, "Delhi"),          R(121, 136, "Haryana"),
       R(140, 160, "Punjab"),         R(301, 345, "Rajasthan"),
       R(201, 285, "Uttar Pradesh"),  R(800, 855, "Bihar"),
       R(700, 743, "West Bengal"),    R(400, 445, "Maharashtra"),
       R(380, 396, "Gujarat"),        R(560, 591, "Karnataka"),
       R(600, 643, "Tamil Nadu"),     R(500, 509, "Telangana"),
       R(515, 535, "Andhra Pradesh"), R(450, 492, "Madhya Pradesh"),
       R(751, 770, "Odisha"),         R(781, 788, "Assam"),
       R(682, 695, "Kerala"),         R(831, 835, "Jharkhand"),
       R(248, 263, "Uttarakhand"),    R(171, 177, "Himachal Pradesh") >>

\* the same function with the except clause lost: the ValueError escapes
app_get_state_from_pincode_no_except(pincode) ==
    LET pin_num == ParseInt(Take(pincode, 3))
    IN  IF ~pin_num.ok THEN "raise ValueError"
        ELSE ElifChain(app_state_ranges, pin_num.val, "Other States")

app_get_state_from_pincode(pincode) ==
    LET pin_num == ParseInt(Take(pincode, 3))
    IN  IF ~pin_num.ok THEN "Unknown"
        ELSE ElifChain(app_state_ranges, pin_num.val, "Other States")

(***************************************************************************)
(* dlc_bank_analysis_fixed.py get_state_from_pincode.                      *)
(***************************************************************************)
dlc_state_ranges ==
    << R(110, 140, "Delhi"),          R(201, 285, "Uttar Pradesh"),
       R(301, 345, "Rajasthan"),      R(360, 396, "Gujarat"),
       R(400, 445, "Maharashtra"),    R(500, 509, "Telangana"),
       R(510, 518, "Andhra Pradesh"), R(560, 591, "Karnataka"),
       R(600, 643, "Tamil Nadu"),     R(682, 695, "Kerala"),
       R(700, 743, "West Bengal"),    R(751, 770, "Odisha"),
       R(800, 855, "Bihar"),          R(781, 788, "Assam"),
       R(160, 165, "Punjab"),         R(171, 177, "Himachal Pradesh"),
       R(180, 194, "Jammu and Kashmir") >>

dlc_get_state_from_pincode(pincode) ==
    LET pin_str == ReplaceDotZero(pincode)
    IN  IF Len(pin_str) >= 3
        THEN LET pin_num == ParseInt(Take(pin_str, 3))
             IN  IF ~pin_num.ok THEN "Invalid Pincode"
                 ELSE ElifChain(dlc_state_ranges, pin_num.val, "Other State")
        ELSE "Invalid Pincode"

(***************************************************************************)
(* get_age_group (app.py and dlc_bank_analysis_fixed.py are the same code).*)
(* birth_year is an integer here, so int(birth_year) cannot raise;         *)
(* current_year is datetime.now().year, read at every call.                *)
(***************************************************************************)
\* the 66-70 test written with the wrong lower end
get_age_group_gap(birth_year, current_year) ==
    LET age == current_year - birth_year
    IN  IF age < 60 THEN "Below 60"
        ELSE IF 60 <= age /\ age <= 65 THEN "60-65"
        ELSE IF 67 <= age /\ age <= 70 THEN "66-70"
        ELSE IF 71 <= age /\ age <= 75 THEN "71-75"
        ELSE IF 76 <= age /\ age <= 80 THEN "76-80"
        ELSE "80+"

get_age_group(birth_year, current_year) ==
    LET age == current_year - birth_year
    IN  IF age < 60 THEN "Below 60"
        ELSE IF 60 <= age /\ age <= 65 THEN "60-65"
        ELSE IF 66 <= age /\ age <= 70 THEN "66-70"
        ELSE IF 71 <= age /\ age <= 75 THEN "71-75"
        ELSE IF 76 <= age /\ age <= 80 THEN "76-80"
        ELSE "80+"

(***************************************************************************)
(* The top-N projections: sorted(items, key=count, reverse=True)[:N].      *)
(* items is the sequence of [key, count] in the dict's iteration order,    *)
(* which is the order in which the keys were first inserted.  Python's     *)
(* sort is stable and reverse=True keeps the original order of elements    *)
(* with equal keys.                                                        *)
(***************************************************************************)
top_pincodes_report_n == 15
top_states_report_n == 10
top_pincodes_saved_n == 50
top_pincodes_per_state_n == 20
top_pincodes_per_district_n == 10

\* number of leading elements of s (sorted descending) whose count is >= c
RECURSIVE CountAtLeast(_, _)
CountAtLeast(s, c) ==
    IF Len(s) = 0 \/ s[1].count < c THEN 0 ELSE 1 + CountAtLeast(Tail(s), c)

\* number of leading elements of s (sorted descending) whose count is > c
RECURSIVE CountAbove(_, _)
CountAbove(s, c) ==
    IF Len(s) = 0 \/ s[1].count <= c THEN 0 ELSE 1 + CountAbove(Tail(s), c)

InsertAt(s, k, x) == SubSeq(s, 1, k) \o <<x>> \o SubSeq(s, k + 1, Len(s))

\* sorted(items)[::-1]: ascending, then reversed, which reverses the ties
RECURSIVE SortedDescTiesReversed(_)
SortedDescTiesReversed(items) ==
    IF Len(items) = 0 THEN <<>>
    ELSE LET rest == SortedDescTiesReversed(SubSeq(items, 1, Len(items) - 1))
             x == items[Len(items)]
         IN  InsertAt(rest, CountAbove(rest, x.count), x)

RECURSIVE SortedDesc(_)
SortedDesc(items) ==
    IF Len(items) = 0 THEN <<>>
    ELSE LET rest == SortedDesc(SubSeq(items, 1, Len(items) - 1))
             x == items[Len(items)]
         IN  InsertAt(rest, CountAtLeast(rest, x.count), x)

TopN(items, n) == Take(SortedDesc(items), n)

(***************************************************************************)
(* Python dicts.  A dict of counters (defaultdict(int)) is a function on   *)
(* the set of its keys; bank_pincode_data, whose iteration order matters,  *)
(* is [keys |-> the keys in insertion order, at |-> key -> value].         *)
(***************************************************************************)
EmptyDict == [k \in {} |-> 0]

Get(d, k, default) == IF k \in DOMAIN d THEN d[k] ELSE default

\* d[k] += n on a defaultdict(int)
Inc(d, k, n) == IF k \in DOMAIN d THEN [d EXCEPT ![k] = @ + n] ELSE d @@ (k :> n)

EmptyODict == [keys |-> <<>>, at |-> EmptyDict]

RECURSIVE SumOver(_, _)
SumOver(S, f) ==
    IF S = {} THEN 0
    ELSE LET x == CHOOSE x \in S : TRUE IN f[x] + SumOver(S \ {x}, f)

\* sum(d.values())
SumValues(d) == SumOver(DOMAIN d, d)

(***************************************************************************)
(* Spreadsheet cells.  A cell is missing (pd.notna is false) or holds a    *)
(* value, modelled by its str(): the float 302017.0 is "302017.0".         *)
(***************************************************************************)
NaN == [na |-> TRUE, text |-> <<>>]

Cell(text) == [na |-> FALSE, text |-> text]

(***************************************************************************)
(* int(float(x)): float() accepts digits with at most one decimal point    *)
(* (and a sign, and surrounding whitespace); int() truncates the fraction. *)
(* Any other text raises ValueError.                                       *)
(***************************************************************************)
IndexOfDot(s) ==
    IF \E i \in DOMAIN s : s[i] = "."
    THEN CHOOSE i \in DOMAIN s : s[i] = "." /\ \A j \in 1..(i - 1) : s[j] # "."
    ELSE 0

IntOfFloat(s) ==
    LET t == RStrip(LStrip(s))
        signed == Len(t) > 0 /\ t[1] \in {"+", "-"}
        body == IF signed THEN Tail(t) ELSE t
        dot == IndexOfDot(body)
        whole == IF dot = 0 THEN body ELSE SubSeq(body, 1, dot - 1)
        frac == IF dot = 0 THEN <<>> ELSE SubSeq(body, dot + 1, Len(body))
        wellFormed == /\ Len(whole) + Len(frac) > 0
                      /\ Len(whole) > 0 => WellFormedDigits(whole)
                      /\ Len(frac) > 0 => WellFormedDigits(frac)
    IN  IF ~wellFormed THEN ValueError
        ELSE [ok |-> TRUE,
              val |-> IF signed /\ t[1] = "-" THEN 0 - DigitsVal(whole) ELSE DigitsVal(whole)]

default_birth_year == 1960

(***************************************************************************)
(* dlc_bank_analysis_fixed.py analyze_dlc_by_bank_pincode: one row.        *)
(***************************************************************************)
\* lines 94-95: str(cell).replace('.0', '') if pd.notna(cell) else ''
NormalizePincode(cell) == IF cell.na THEN <<>> ELSE ReplaceDotZero(cell.text)

\* app.py get_excel_pensioners, lines 489-496: str(cell) if pd.notna(cell) else '',
\* then [:-2] when the string ends with '.0'
AppNormalizePincode(cell) ==
    LET text == IF cell.na THEN <<>> ELSE cell.text
        n == Len(text)
    IN  IF n >= 2 /\ text[n - 1] = "." /\ text[n] = "0" THEN SubSeq(text, 1, n - 2) ELSE text

\* line 96: int(float(cell)) if pd.notna(cell) else 1960
BirthYearOf(cell) ==
    IF cell.na THEN [ok |-> TRUE, val |-> default_birth_year] ELSE IntOfFloat(cell.text)

NewBucket == [total_dlc_completed |-> 0, age_groups |-> EmptyDict, state |-> "",
              pensioner_states |-> EmptyDict]

\* bank_pincode_data[key] on the defaultdict: a missing key is inserted
Touch(data, key) ==
    IF key \in DOMAIN data.at THEN data
    ELSE [keys |-> Append(data.keys, key), at |-> data.at @@ (key :> NewBucket)]

\* the update with the bucket's state taken from the pensioner's pincode
UpdateBucketResidenceState(data, branch_pincode, age_group, bank_state, pensioner_state) ==
    LET touched == Touch(data, branch_pincode)
        bank_data == touched.at[branch_pincode]
        updated == [total_dlc_completed |-> bank_data.total_dlc_completed + 1,
                    age_groups |-> Inc(bank_data.age_groups, age_group, 1),
                    pensioner_states |-> Inc(bank_data.pensioner_states, pensioner_state, 1),
                    state |-> IF bank_data.state = "" THEN pensioner_state ELSE bank_data.state]
    IN  [touched EXCEPT !.at[branch_pincode] = updated]

\* lines 110-117
UpdateBucket(data, branch_pincode, age_group, bank_state, pensioner_state) ==
    LET touched == Touch(data, branch_pincode)
        bank_data == touched.at[branch_pincode]
        updated == [total_dlc_completed |-> bank_data.total_dlc_completed + 1,
                    age_groups |-> Inc(bank_data.age_groups, age_group, 1),
                    pensioner_states |-> Inc(bank_data.pensioner_states, pensioner_state, 1),
                    state |-> IF bank_data.state = "" THEN bank_state ELSE bank_data.state]
    IN  [touched EXCEPT !.at[branch_pincode] = updated]

\* the loop body without the test of line 99
RowOutcomeNoSkip(row) ==
    IF ~BirthYearOf(row.YOB).ok THEN "raised" ELSE "counted"

\* what the body of the row loop does with a row: "raised" (except: continue),
\* "skipped" (the skip test's continue) or "counted"
RowOutcome(row) ==
    LET branch_pincode == NormalizePincode(row.BRANCH_PINCODE)
        birth_year == BirthYearOf(row.YOB)
    IN  IF ~birth_year.ok THEN "raised"
        ELSE IF Len(branch_pincode) = 0 \/ Len(branch_pincode) < 6 THEN "skipped"
        ELSE "counted"

\* the loop body with the bucket updated before YOB is read: a row that raises has
\* already been counted in its pincode's total
RowAppliedBeforeParse(acc, row, current_year) ==
    LET branch_pincode == NormalizePincode(row.BRANCH_PINCODE)
        pensioner_pincode == NormalizePincode(row.PENSIONER_PINCODE)
        birth_year == BirthYearOf(row.YOB)
        touched == Touch(acc.data, branch_pincode)
    IN  IF Len(branch_pincode) < 6 THEN acc
        ELSE IF ~birth_year.ok
        THEN [acc EXCEPT !.data =
                 [touched EXCEPT !.at[branch_pincode].total_dlc_completed = @ + 1,
                                 !.at[branch_pincode].state =
                                     dlc_get_state_from_pincode(branch_pincode)]]
        ELSE [data |-> UpdateBucket(acc.data, branch_pincode,
                                    get_age_group(birth_year.val, current_year),
                                    dlc_get_state_from_pincode(branch_pincode),
                                    dlc_get_state_from_pincode(pensioner_pincode)),
              total |-> acc.total + 1]

\* lines 92-127: the loop body's effect on the run's accumulators (file_records,
\* which is only printed, is left out)
RowApplied(acc, row, current_year) ==
    LET branch_pincode == NormalizePincode(row.BRANCH_PINCODE)
        pensioner_pincode == NormalizePincode(row.PENSIONER_PINCODE)
        birth_year == BirthYearOf(row.YOB)
    IN  IF RowOutcome(row) = "counted"
        THEN [data |-> UpdateBucket(acc.data, branch_pincode,
                                    get_age_group(birth_year.val, current_year),
                                    dlc_get_state_from_pincode(branch_pincode),
                                    dlc_get_state_from_pincode(pensioner_pincode)),
              total |-> acc.total + 1]
        ELSE acc

\* the loop body as a step of the run in progress; get_age_group reads the clock
RowStep(row) ==
    LET after == RowApplied([data |-> bank_pincode_data, total |-> total_processed],
                            row, now.year)
    IN  /\ bank_pincode_data' = after.data
        /\ total_processed' = after.total

(***************************************************************************)
(* Time stamps: strftime with zero-padded, fixed-width fields.  A clock    *)
(* value is a date with the seconds since its midnight.                    *)
(***************************************************************************)
Instant(y, mo, d, h, mi, sec) ==
    [year |-> y, month |-> mo, day |-> d, sec |-> (h * 60 + mi) * 60 + sec]

NewYearsDay(y) == Instant(y, 1, 1, 0, 0, 0)

DigitChar(d) == CHOOSE c \in Digits : DigitVal(c) = d

\* '%S' and its like without the leading zero
Pad2Unpadded(n) ==
    IF n < 10 THEN <<DigitChar(n)>> ELSE <<DigitChar((n \div 10) % 10), DigitChar(n % 10)>>

\* a two-digit strftime field
Pad2(n) == <<DigitChar((n \div 10) % 10), DigitChar(n % 10)>>

Pad4(n) == Pad2(n \div 100) \o Pad2(n % 100)

Hour(t) == t.sec \div 3600
Minute(t) == (t.sec \div 60) % 60
Second(t) == t.sec % 60

\* strftime('%Y%m%d_%H%M%S')
FileTimestamp(t) ==
    Pad4(t.year) \o Pad2(t.month) \o Pad2(t.day) \o <<"_">>
        \o Pad2(Hour(t)) \o Pad2(Minute(t)) \o Pad2(Second(t))

\* strftime('%Y-%m-%d %H:%M:%S')
DisplayTimestamp(t) ==
    Pad4(t.year) \o <<"-">> \o Pad2(t.month) \o <<"-">> \o Pad2(t.day) \o <<" ">>
        \o Pad2(Hour(t)) \o <<":">> \o Pad2(Minute(t)) \o <<":">> \o Pad2(Second(t))

(***************************************************************************)
(* save_dlc_analysis_data.  A file name is [kind, tag]:                    *)
(* f'{kind}_{tag}.json'.  A file's content is the JSON text of data when   *)
(* complete, and a proper prefix of it (not valid JSON) otherwise.         *)
(***************************************************************************)
AnalysisFile(tag) == [kind |-> "dlc_bank_analysis", tag |-> tag]

TopFile(tag) == [kind |-> "top_bank_pincodes", tag |-> tag]

Content(data) == [complete |-> TRUE, data |-> data]

\* lines 140-148: every bucket has total_dlc_completed > 0, so all are kept
FinalData(data) ==
    LET kept == SelectSeq(data.keys, LAMBDA k : data.at[k].total_dlc_completed > 0)
    IN  [keys |-> kept, at |-> [k \in Range(kept) |-> data.at[k]]]

\* bank_data.items() as the sequence of [key, count] the sorts work on
CountItems(bank_data) ==
    [i \in DOMAIN bank_data.keys |->
        [key |-> bank_data.keys[i],
         count |-> bank_data.at[bank_data.keys[i]].total_dlc_completed]]

\* lines 218-224
CompleteData(bank_data, total, t) ==
    [analysis_timestamp |-> DisplayTimestamp(t),
     total_records_processed |-> total,
     total_bank_pincodes |-> Len(bank_data.keys),
     total_dlc_completed |->
         SumOver(Range(bank_data.keys), [k \in Range(bank_data.keys) |-> bank_data.at[k].total_dlc_completed]),
     bank_pincode_data |-> bank_data]

\* lines 230-235
TopData(bank_data) ==
    LET top == TopN(CountItems(bank_data), top_pincodes_saved_n)
        keys == [i \in DOMAIN top |-> top[i].key]
    IN  [top_50_bank_pincodes |-> [keys |-> keys, at |-> [k \in Range(keys) |-> bank_data.at[k]]]]

\* open(name, 'w') followed by json.dump: the file is created or replaced
WriteFile(files, name, content) ==
    IF name \in DOMAIN files THEN [files EXCEPT ![name] = content] ELSE files @@ (name :> content)

\* the whole of save_dlc_analysis_data at clock value t
SaveAll(files, bank_data, total, t) ==
    LET timestamp == FileTimestamp(t)
        withAnalysis == WriteFile(files, AnalysisFile(timestamp),
                                  Content(CompleteData(bank_data, total, t)))
    IN  WriteFile(withAnalysis, TopFile(timestamp), Content(TopData(bank_data)))

(***************************************************************************)
(* Reading the latest document: sorted(analysis_files)[-1], the greatest   *)
(* name in the order of Python strings (character by character, a proper   *)
(* prefix first).  The names differ only from the tag on, so the order is  *)
(* that of tag + '.json'.                                                  *)
(***************************************************************************)
CharCode(c) ==
    CASE c \in Digits -> 48 + DigitVal(c)
      [] c = "." -> 46
      [] c = "_" -> 95
      [] OTHER -> 120

RECURSIVE LexLess(_, _)
LexLess(a, b) ==
    IF Len(b) = 0 THEN FALSE
    ELSE IF Len(a) = 0 THEN TRUE
    ELSE IF a[1] # b[1] THEN CharCode(a[1]) < CharCode(b[1])
    ELSE LexLess(Tail(a), Tail(b))

NameLess(f, g) == LexLess(f.tag \o <<".">>, g.tag \o <<".">>)

\* [f for f in os.listdir('.') if f.startswith('dlc_bank_analysis_') and f.endswith('.json')]
AnalysisFiles(files) == {f \in DOMAIN files : f.kind = "dlc_bank_analysis"}

\* sorted(analysis_files)[-1]
LatestFile(files) ==
    CHOOSE f \in AnalysisFiles(files) : \A g \in AnalysisFiles(files) : g = f \/ NameLess(g, f)

\* dlc_api_endpoint.py load_dlc_analysis_data: None when there is no file, and also
\* when open or json.load raises (lines 22-24)
None == [loaded |-> FALSE]

load_dlc_analysis_data(files) ==
    IF AnalysisFiles(files) = {} THEN None
    ELSE LET content == files[LatestFile(files)]
         IN  IF content.complete THEN [loaded |-> TRUE, data |-> content.data] ELSE None

(***************************************************************************)
(* dlc_api_endpoint.py get_district_from_pincode.                          *)
(***************************************************************************)
api_district_ranges ==
    << R(380, 382, "Ahmedabad"),  R(390, 396, "Vadodara"),   R(360, 370, "Rajkot"),
       R(370, 375, "Jamnagar"),   R(383, 389, "Gandhinagar"), R(362, 365, "Bhavnagar"),
       R(302, 303, "Jaipur"),     R(342, 344, "Jodhpur"),    R(313, 314, "Udaipur"),
       R(334, 335, "Bikaner"),    R(301, 302, "Alwar"),      R(321, 322, "Bharatpur"),
       R(400, 421, "Mumbai"),     R(411, 414, "Pune"),       R(440, 445, "Nagpur"),
       R(422, 425, "Nashik"),     R(431, 432, "Aurangabad"),
       R(560, 562, "Bangalore"),  R(570, 571, "Mysore"),     R(580, 582, "Hubli"),
       R(575, 576, "Mangalore"),
       R(800, 803, "Patna"),      R(834, 835, "Ranchi"),     R(831, 832, "Dhanbad"),
       R(110, 140, "Delhi") >>

api_get_district_from_pincode(pincode) ==
    LET pin_num == ParseInt(Take(pincode, 3))
    IN  IF ~pin_num.ok THEN "Unknown District"
        ELSE ElifChain(api_district_ranges, pin_num.val, "Other District")

(***************************************************************************)
(* app.py get_district_from_pincode.                                       *)
(***************************************************************************)
app_district_ranges ==
    << R(360, 370, "Rajkot"),     R(380, 382, "Ahmedabad"),  R(390, 396, "Vadodara"),
       R(360, 365, "Rajkot"),     R(370, 375, "Jamnagar"),   R(383, 389, "Gandhinagar"),
       R(400, 421, "Mumbai"),     R(411, 414, "Pune"),       R(440, 445, "Nagpur"),
       R(422, 425, "Nashik"),     R(560, 562, "Bangalore"),  R(570, 571, "Mysore"),
       R(580, 582, "Hubli"),      R(575, 576, "Mangalore"),  R(600, 603, "Chennai"),
       R(641, 642, "Coimbatore"), R(625, 626, "Madurai"),    R(620, 621, "Tiruchirappalli"),
       R(226, 227, "Lucknow"),    R(208, 209, "Kanpur"),     R(282, 283, "Agra"),
       R(221, 222, "Varanasi"),   R(700, 711, "Kolkata"),    R(711, 712, "Howrah"),
       R(713, 714, "Hooghly"),    R(302, 303, "Jaipur"),     R(342, 344, "Jodhpur"),
       R(324, 325, "Kota"),       R(334, 335, "Bikaner"),    R(800, 801, "Patna"),
       R(823, 824, "Gaya"),       R(812, 813, "Bhagalpur"),  R(842, 843, "Muzaffarpur") >>

\* an if/elif chain read bottom-up: the last range that contains n decides
ElifChainLastMatch(ranges, n, default) ==
    IF \E i \in DOMAIN ranges : InRange(ranges[i], n)
    THEN LET last == CHOOSE i \in DOMAIN ranges :
                         /\ InRange(ranges[i], n)
                         /\ \A j \in (i + 1)..Len(ranges) : ~InRange(ranges[j], n)
         IN  ranges[last].name
    ELSE default

app_get_district_from_pincode_last_match(pincode) ==
    LET pin_num == ParseInt(Take(pincode, 3))
    IN  IF ~pin_num.ok THEN "Unknown District"
        ELSE ElifChainLastMatch(app_district_ranges, pin_num.val, "Other District")

app_get_district_from_pincode(pincode) ==
    LET pin_num == ParseInt(Take(pincode, 3))
    IN  IF ~pin_num.ok THEN "Unknown District"
        ELSE ElifChain(app_district_ranges, pin_num.val, "Other District")

(***************************************************************************)
(* dlc_api_endpoint.py get_dlc_bank_pincode_data: the bank-location rollup.*)
(***************************************************************************)
\* for age_group, count in data['age_groups'].items(): acc[age_group] += count
RECURSIVE AddCounts(_, _)
AddCounts(acc, counts) ==
    IF DOMAIN counts = {} THEN acc
    ELSE LET k == CHOOSE k \in DOMAIN counts : TRUE
         IN  AddCounts(Inc(acc, k, counts[k]), [j \in DOMAIN counts \ {k} |-> counts[j]])

\* acc[key] of a defaultdict whose default value is fresh
GetOr(acc, key, fresh) == IF key \in DOMAIN acc THEN acc[key] ELSE fresh

Put(acc, key, value) ==
    IF key \in DOMAIN acc THEN [acc EXCEPT ![key] = value] ELSE acc @@ (key :> value)

ApiNewState == [total_dlc_completed |-> 0, age_groups |-> EmptyDict, bank_pincodes |-> <<>>,
                pincode_counts |-> EmptyDict]

ApiNewDistrict == [total_dlc_completed |-> 0, age_groups |-> EmptyDict, bank_pincodes |-> <<>>,
                   state |-> ""]

\* lines 58-68, with the assignment = in the place of += on line 59
ApiStateStepOverwrite(acc, pincode, data) ==
    LET state == data.state
        old == GetOr(acc, state, ApiNewState)
        new == [total_dlc_completed |-> data.total_dlc_completed,
                pincode_counts |-> Put(old.pincode_counts, pincode, data.total_dlc_completed),
                bank_pincodes |-> Append(old.bank_pincodes,
                                         [pincode |-> pincode,
                                          count |-> data.total_dlc_completed,
                                          district |-> api_get_district_from_pincode(pincode)]),
                age_groups |-> AddCounts(old.age_groups, data.age_groups)]
    IN  Put(acc, state, new)

\* lines 58-68 (dlc_count is the count field of the list's entries)
ApiStateStep(acc, pincode, data) ==
    LET state == data.state
        old == GetOr(acc, state, ApiNewState)
        new == [total_dlc_completed |-> old.total_dlc_completed + data.total_dlc_completed,
                pincode_counts |-> Put(old.pincode_counts, pincode, data.total_dlc_completed),
                bank_pincodes |-> Append(old.bank_pincodes,
                                         [pincode |-> pincode,
                                          count |-> data.total_dlc_completed,
                                          district |-> api_get_district_from_pincode(pincode)]),
                age_groups |-> AddCounts(old.age_groups, data.age_groups)]
    IN  Put(acc, state, new)

\* lines 70-80; the key f"{district}_{state}" is the pair <<district, state>>
ApiDistrictStep(acc, pincode, data) ==
    LET district_key == <<api_get_district_from_pincode(pincode), data.state>>
        old == GetOr(acc, district_key, ApiNewDistrict)
        new == [total_dlc_completed |-> old.total_dlc_completed + data.total_dlc_completed,
                state |-> data.state,
                bank_pincodes |-> Append(old.bank_pincodes,
                                         [pincode |-> pincode,
                                          count |-> data.total_dlc_completed]),
                age_groups |-> AddCounts(old.age_groups, data.age_groups)]
    IN  Put(acc, district_key, new)

\* lines 54-80: the loop over bank_pincode_data.items()
RECURSIVE ApiStateFold(_, _, _)
ApiStateFold(acc, keys, at) ==
    IF Len(keys) = 0 THEN acc
    ELSE ApiStateFold(ApiStateStep(acc, keys[1], at[keys[1]]), Tail(keys), at)

RECURSIVE ApiDistrictFold(_, _, _)
ApiDistrictFold(acc, keys, at) ==
    IF Len(keys) = 0 THEN acc
    ELSE ApiDistrictFold(ApiDistrictStep(acc, keys[1], at[keys[1]]), Tail(keys), at)

\* lines 83-100
ApiStateFinal(state_wise_data) ==
    [state \in DOMAIN state_wise_data |->
        [total_pensioners |-> state_wise_data[state].total_dlc_completed,
         age_groups |-> state_wise_data[state].age_groups,
         bank_locations |-> EmptyDict,
         pincode_counts |-> state_wise_data[state].pincode_counts,
         bank_pincodes |-> TopN(state_wise_data[state].bank_pincodes, top_pincodes_per_state_n)]]

ApiDistrictFinal(district_wise_data) ==
    [key \in DOMAIN district_wise_data |->
        [total_dlc_completed |-> district_wise_data[key].total_dlc_completed,
         age_groups |-> district_wise_data[key].age_groups,
         state |-> district_wise_data[key].state,
         bank_pincodes |-> TopN(district_wise_data[key].bank_pincodes,
                                top_pincodes_per_district_n)]]

api_get_dlc_bank_pincode_data(files) ==
    LET analysis_data == load_dlc_analysis_data(files)
    IN  IF ~analysis_data.loaded
        THEN [status |-> 404, error |-> "No DLC analysis data found"]
        ELSE LET doc == analysis_data.data
                 bank == doc.bank_pincode_data
             IN  [status |-> 200,
                  state_wise_data |-> ApiStateFinal(ApiStateFold(EmptyDict, bank.keys, bank.at)),
                  district_wise_data |->
                      ApiDistrictFinal(ApiDistrictFold(EmptyDict, bank.keys, bank.at)),
                  bank_pincode_data |-> bank,
                  total_records |-> doc.total_records_processed,
                  total_bank_pincodes |-> doc.total_bank_pincodes,
                  analysis_timestamp |-> doc.analysis_timestamp]

(***************************************************************************)
(* app.py get_dlc_bank_pincode_data: the residence rollup.                 *)
(***************************************************************************)
\* line 851: int((age_count * pensioner_count) / total_bank_dlc), rounded to nearest
ProportionalCountRounded(age_count, pensioner_count, total_bank_dlc) ==
    (2 * age_count * pensioner_count + total_bank_dlc) \div (2 * total_bank_dlc)

\* line 851: int() of the quotient of non-negative counts cuts the fraction off.
\* The counts of a document are far below 2^53, where the float quotient of two
\* integers cannot reach the next integer.
ProportionalCount(age_count, pensioner_count, total_bank_dlc) ==
    (age_count * pensioner_count) \div total_bank_dlc

AppNewState == [total_pensioners |-> 0, age_groups |-> EmptyDict, bank_locations |-> EmptyDict,
                pincode_counts |-> EmptyDict, pensioner_pincodes |-> EmptyDict]

\* line 840 with its last test lost
RedistributedOtherState(pensioner_state) ==
    pensioner_state # "" /\ pensioner_state # "Invalid Pincode"

\* line 840
Redistributed(pensioner_state) ==
    pensioner_state # "" /\ pensioner_state # "Invalid Pincode" /\ pensioner_state # "Other State"

\* lines 850-852
RECURSIVE AddProportional(_, _, _, _)
AddProportional(acc, age_groups, pensioner_count, total_bank_dlc) ==
    IF DOMAIN age_groups = {} THEN acc
    ELSE LET a == CHOOSE a \in DOMAIN age_groups : TRUE
         IN  AddProportional(
                 Inc(acc, a, ProportionalCount(age_groups[a], pensioner_count, total_bank_dlc)),
                 [b \in DOMAIN age_groups \ {a} |-> age_groups[b]],
                 pensioner_count, total_bank_dlc)

\* lines 840-852, with the exclusion test of line 840 lost
AppPensionerStepAll(acc, data, pensioner_state, pensioner_count) ==
    LET old == GetOr(acc, pensioner_state, AppNewState)
        new == [old EXCEPT
                  !.total_pensioners = @ + pensioner_count,
                  !.bank_locations = Inc(@, data.state, pensioner_count),
                  !.age_groups =
                      IF data.total_dlc_completed > 0
                      THEN AddProportional(@, data.age_groups, pensioner_count,
                                           data.total_dlc_completed)
                      ELSE @]
    IN  Put(acc, pensioner_state, new)

\* lines 840-852, with bank_locations counting the bank pincodes instead of the
\* pensioners
AppPensionerStepCountsBanks(acc, data, pensioner_state, pensioner_count) ==
    IF Redistributed(pensioner_state)
    THEN LET old == GetOr(acc, pensioner_state, AppNewState)
             new == [old EXCEPT
                       !.total_pensioners = @ + pensioner_count,
                       !.bank_locations = Inc(@, data.state, 1),
                       !.age_groups =
                           IF data.total_dlc_completed > 0
                           THEN AddProportional(@, data.age_groups, pensioner_count,
                                                data.total_dlc_completed)
                           ELSE @]
         IN  Put(acc, pensioner_state, new)
    ELSE acc

\* lines 840-852
AppPensionerStep(acc, data, pensioner_state, pensioner_count) ==
    IF Redistributed(pensioner_state)
    THEN LET old == GetOr(acc, pensioner_state, AppNewState)
             new == [old EXCEPT
                       !.total_pensioners = @ + pensioner_count,
                       !.bank_locations = Inc(@, data.state, pensioner_count),
                       !.age_groups =
                           IF data.total_dlc_completed > 0
                           THEN AddProportional(@, data.age_groups, pensioner_count,
                                                data.total_dlc_completed)
                           ELSE @]
         IN  Put(acc, pensioner_state, new)
    ELSE acc

\* line 839: the loop over data.get('pensioner_states', {}).items()
RECURSIVE AppPincodeStep(_, _, _)
AppPincodeStep(acc, data, pensioner_states) ==
    IF DOMAIN pensioner_states = {} THEN acc
    ELSE LET st == CHOOSE st \in DOMAIN pensioner_states : TRUE
         IN  AppPincodeStep(AppPensionerStep(acc, data, st, pensioner_states[st]), data,
                            [t \in DOMAIN pensioner_states \ {st} |-> pensioner_states[t]])

\* line 835: the loop over bank_pincode_data.items()
RECURSIVE AppFold(_, _, _)
AppFold(acc, keys, at) ==
    IF Len(keys) = 0 THEN acc
    ELSE AppFold(AppPincodeStep(acc, at[keys[1]], at[keys[1]].pensioner_states), Tail(keys), at)

\* lines 855-862
AppStateFinal(state_wise_data) ==
    [state \in DOMAIN state_wise_data |->
        [total_pensioners |-> state_wise_data[state].total_pensioners,
         age_groups |-> state_wise_data[state].age_groups,
         bank_locations |-> state_wise_data[state].bank_locations,
         pincode_counts |-> state_wise_data[state].pincode_counts]]

app_get_dlc_bank_pincode_data(files) ==
    IF AnalysisFiles(files) = {}
    THEN [status |-> 404, error |-> "No DLC analysis data found"]
    ELSE LET content == files[LatestFile(files)]
         IN  IF ~content.complete
             THEN [status |-> 500, error |-> "JSONDecodeError"]
             ELSE LET bank == content.data.bank_pincode_data
                      state_final == AppStateFinal(AppFold(EmptyDict, bank.keys, bank.at))
                  IN  [status |-> 200,
                       state_wise_data |-> state_final,
                       bank_pincode_data |-> bank,
                       total_records |-> Len(bank.keys),
                       total_states |-> Cardinality(DOMAIN state_final),
                       processed_at |-> content.data.analysis_timestamp]

(***************************************************************************)
(* The pipeline run, analyze_dlc_by_bank_pincode, with its rows drawn from *)
(* the input domain as they are read.                                      *)
(***************************************************************************)
P302001 == <<"3", "0", "2", "0", "0", "1">>
P302017f == <<"3", "0", "2", "0", "1", "7", ".", "0">>
P380015f == <<"3", "8", "0", "0", "1", "5", ".", "0">>
P999999 == <<"9", "9", "9", "9", "9", "9">>
P4000 == <<"4", "0", "0", "0">>
Y1964 == <<"1", "9", "6", "4">>
Y1965f == <<"1", "9", "6", "5", ".", "0">>
Yabc == <<"a", "b", "c">>

\* two branches of one state, short and missing branch pincodes, odd birth years
WideProfile ==
    [name |-> "wide",
     branch |-> {Cell(P302001), Cell(P302017f), Cell(P4000), NaN},
     pensioner |-> {Cell(P302001), NaN},
     yob |-> {Cell(Y1964), Cell(Y1965f), NaN, Cell(Yabc)},
     rows |-> MaxRows]

\* branches and pensioners in named states and in both sentinels
StatesProfile ==
    [name |-> "states",
     branch |-> {Cell(P302001), Cell(P999999)},
     pensioner |-> {Cell(P302001), Cell(P380015f), Cell(P999999), NaN},
     yob |-> {Cell(Y1964)},
     rows |-> MaxRows]

\* one branch, many rows
DeepProfile ==
    [name |-> "deep",
     branch |-> {Cell(P302001)},
     pensioner |-> {Cell(P302001), Cell(P380015f), NaN},
     yob |-> {Cell(Y1964), Cell(Y1965f)},
     rows |-> MaxRowsDeep]

Profiles == {WideProfile, StatesProfile, DeepProfile}

RowsOf(pr) == [BRANCH_PINCODE : pr.branch, PENSIONER_PINCODE : pr.pensioner, YOB : pr.yob]

NoCall == [fn |-> "none"]

NoInput == <<>>

NoResponse == [handler |-> "none", body |-> [status |-> 0]]

NoSavers == <<>>

(***************************************************************************)
(* excel_processor.py ExcelDataProcessor.  A cell of a sheet read by this   *)
(* class keeps its type next to its str(): int() of the float 1964.0 is    *)
(* 1964, int() of the text "1964.0" raises ValueError.                     *)
(***************************************************************************)
FloatCell(text) == [na |-> FALSE, isstr |-> FALSE, text |-> text]

StrCell(text) == [na |-> FALSE, isstr |-> TRUE, text |-> text]

MissingCell == [na |-> TRUE, isstr |-> FALSE, text |-> <<>>]

excel_default_year == 1960

excel_absent_year == 2020

\* str.isdigit() on ASCII text
IsDigit(s) == Len(s) > 0 /\ \A i \in DOMAIN s : s[i] \in Digits

\* str.replace('.', '')
RECURSIVE RemoveDots(_)
RemoveDots(s) ==
    IF Len(s) = 0 THEN <<>>
    ELSE IF s[1] = "." THEN RemoveDots(Tail(s))
    ELSE <<s[1]>> \o RemoveDots(Tail(s))

\* line 18: the mapping as constructed; load_pincode_state_mapping found no file
state_pincode_mapping == EmptyDict

\* lines 40-79: the bounds are six-digit numbers
excel_state_ranges ==
    << R(110000, 140000, "Delhi"),          R(121000, 136000, "Haryana"),
       R(140000, 160000, "Punjab"),         R(301000, 345000, "Rajasthan"),
       R(201000, 285000, "Uttar Pradesh"),  R(800000, 855000, "Bihar"),
       R(700000, 743000, "West Bengal"),    R(400000, 445000, "Maharashtra"),
       R(380000, 396000, "Gujarat"),        R(560000, 591000, "Karnataka"),
       R(600000, 643000, "Tamil Nadu"),     R(500000, 509000, "Telangana"),
       R(515000, 535000, "Andhra Pradesh"), R(450000, 492000, "Madhya Pradesh"),
       R(751000, 770000, "Odisha"),         R(781000, 788000, "Assam"),
       R(682000, 695000, "Kerala"),         R(831000, 835000, "Jharkhand"),
       R(248000, 263000, "Uttarakhand"),    R(171000, 177000, "Himachal Pradesh") >>

\* lines 32-81
detect_state_from_pincode(pincode) ==
    IF pincode \in DOMAIN state_pincode_mapping THEN state_pincode_mapping[pincode]
    ELSE LET pincode_num == IF Len(pincode) >= 3 /\ IsDigit(Take(pincode, 3))
                            THEN DigitsVal(Take(pincode, 3))
                            ELSE 0
         IN  ElifChain(excel_state_ranges, pincode_num, "Other States")

\* lines 83-99
categorize_age_group(birth_year, current_year) ==
    LET age == current_year - birth_year
    IN  IF age < 60 THEN "Below 60"
        ELSE IF 60 <= age /\ age <= 65 THEN "60-65"
        ELSE IF 66 <= age /\ age <= 70 THEN "66-70"
        ELSE IF 71 <= age /\ age <= 75 THEN "71-75"
        ELSE IF 76 <= age /\ age <= 80 THEN "76-80"
        ELSE "80+"

\* lines 132 and 134: str(cell) if pd.notna(cell) else ''
StrOrEmpty(cell) == IF cell.na THEN <<>> ELSE cell.text

\* line 136: int(cell) if pd.notna(cell) and str(cell).replace('.', '').isdigit()
\* else 1960
YearOf(cell) ==
    IF cell.na \/ ~IsDigit(RemoveDots(cell.text))
    THEN [ok |-> TRUE, val |-> excel_default_year]
    ELSE IF cell.isstr THEN ParseInt(cell.text)
    ELSE IntOfFloat(cell.text)

ExcelColumns == {"PENSIONER_PINCODE", "BRANCH_PINCODE", "YOB"}

\* lines 125-146: the record of one row, or the exception raised on the way
pensioner_data(file_name, index, columns, row) ==
    LET year == IF "YOB" \in columns THEN YearOf(row.YOB)
                ELSE [ok |-> TRUE, val |-> excel_absent_year]
    IN  [ok |-> year.ok,
         val |-> [file_source |-> file_name,
                  row_index |-> index,
                  pensioner_pincode |-> IF "PENSIONER_PINCODE" \in columns
                                        THEN StrOrEmpty(row.PENSIONER_PINCODE) ELSE <<>>,
                  bank_pincode |-> IF "BRANCH_PINCODE" \in columns
                                   THEN StrOrEmpty(row.BRANCH_PINCODE) ELSE <<>>,
                  year |-> year.val,
                  bank_name |-> "Unknown Bank"]]

NewStateAnalysis ==
    [total_pensioners |-> 0, age_groups |-> EmptyDict, banks |-> EmptyDict,
     verification_locations |-> <<>>]

\* lines 164-203: one record
AnalyzeRecord(acc, record, current_year) ==
    LET state == detect_state_from_pincode(record.pensioner_pincode)
        age_group == categorize_age_group(record.year, current_year)
        before == Get(acc.state_wise_data, state, NewStateAnalysis)
        after == [before EXCEPT !.total_pensioners = @ + 1,
                                !.age_groups = Inc(@, age_group, 1),
                                !.banks = Inc(@, record.bank_name, 1)]
    IN  [state_wise_data |->
             [s \in DOMAIN acc.state_wise_data \cup {state} |->
                 IF s = state THEN after ELSE acc.state_wise_data[s]],
         age_group_summary |-> Inc(acc.age_group_summary, age_group, 1),
         bank_summary |-> Inc(acc.bank_summary, record.bank_name, 1)]

RECURSIVE AnalyzeAll(_, _, _)
AnalyzeAll(acc, data, current_year) ==
    IF Len(data) = 0 THEN acc
    ELSE AnalyzeAll(AnalyzeRecord(acc, data[1], current_year), Tail(data), current_year)

\* lines 157-211
analyze_data(data, clock) ==
    LET sums == AnalyzeAll([state_wise_data |-> EmptyDict, age_group_summary |-> EmptyDict,
                            bank_summary |-> EmptyDict], data, clock.year)
    IN  [state_wise_data |-> sums.state_wise_data,
         age_group_summary |-> sums.age_group_summary,
         bank_summary |-> sums.bank_summary,
         total_records |-> Len(data),
         processed_at |-> clock]

NoAnalysis ==
    [state_wise_data |-> EmptyDict, age_group_summary |-> EmptyDict,
     bank_summary |-> EmptyDict, total_records |-> 0 - 1, processed_at |-> NewYearsDay(FirstYear)]

IdleExcel == all_data = <<>> /\ processed_data = NoAnalysis

\* the pensioners table as init_database creates it
IdleDb == pensioners = <<>>

IdlePure == call = NoCall /\ ret = Pending

IdleRun ==
    /\ profile = [name |-> "none"]
    /\ input = NoInput
    /\ cursor = [file |-> 0, row |-> 0]
    /\ pc = "idle"
    /\ runs_done = 0
    /\ files_left = 0
    /\ rows_read = 0
    /\ bank_pincode_data = EmptyODict
    /\ total_processed = 0
    /\ produced = <<>>
    /\ run_started = <<>>
    /\ IdleExcel
    /\ IdleDb

IdleStore ==
    /\ now = NewYearsDay(FirstYear)
    /\ savers = NoSavers
    /\ store = EmptyDict
    /\ response = NoResponse

Init ==
    /\ IdlePure
    /\ now = NewYearsDay(FirstYear)
    /\ profile \in Profiles
    /\ input = NoInput
    /\ cursor = [file |-> 0, row |-> 0]
    /\ pc = "idle"
    /\ runs_done = 0
    /\ files_left = 0
    /\ rows_read = 0
    /\ bank_pincode_data = EmptyODict
    /\ total_processed = 0
    /\ produced = <<>>
    /\ run_started = <<>>
    /\ IdleExcel
    /\ IdleDb
    /\ savers = NoSavers
    /\ store = EmptyDict
    /\ response = NoResponse

\* lines 67-72: the run's buckets start empty
InitialBuckets == EmptyODict

\* lines 66-75: os.listdir raises when the folder is missing, and the run ends in
\* the handler of __main__ (lines 256-259); otherwise the accumulators start empty
StartRun ==
    /\ pc = "idle" /\ runs_done = 0
    /\ \/ /\ pc' = "failed"
          /\ UNCHANGED <<files_left, rows_read, bank_pincode_data, total_processed>>
       \/ /\ \E n \in 0..MaxFiles : files_left' = n
          /\ pc' = "next_file"
          /\ rows_read' = 0
          /\ bank_pincode_data' = InitialBuckets
          /\ total_processed' = 0
    /\ UNCHANGED <<pureVars, excelVars, dbVars, savers, now, profile, input, cursor, runs_done, produced, run_started,
                   store, response>>

\* lines 78-88 and 131-133: pd.read_excel loads the file or raises
ReadExcel ==
    /\ pc = "next_file" /\ files_left > 0
    /\ files_left' = files_left - 1
    /\ \/ pc' = "rows"
       \/ pc' = "next_file"
    /\ UNCHANGED <<pureVars, excelVars, dbVars, savers, now, profile, input, cursor, runs_done, rows_read,
                   bank_pincode_data, total_processed, produced, run_started, savers, store, response>>

\* lines 91-127
ProcessRow ==
    /\ pc = "rows" /\ rows_read < profile.rows
    /\ \E row \in RowsOf(profile) : RowStep(row)
    /\ rows_read' = rows_read + 1
    /\ UNCHANGED <<pureVars, excelVars, dbVars, savers, now, profile, input, cursor, pc, runs_done, files_left,
                   produced, run_started, store, response>>

\* line 129: the rows of the file are exhausted
EndOfFile ==
    /\ pc = "rows"
    /\ pc' = "next_file"
    /\ UNCHANGED <<pureVars, excelVars, dbVars, savers, now, profile, input, cursor, runs_done, files_left, rows_read,
                   bank_pincode_data, total_processed, produced, run_started, savers, store, response>>

\* lines 135-156: final_data, the report (which only prints) and the save; on
\* return the function's locals are gone
Finish ==
    /\ pc = "next_file" /\ files_left = 0
    /\ LET final_data == FinalData(bank_pincode_data)
       IN  /\ store' = SaveAll(store, final_data, total_processed, now)
           /\ produced' = Append(produced, CompleteData(final_data, total_processed, now))
    /\ pc' = "done"
    /\ runs_done' = runs_done + 1
    /\ rows_read' = 0
    /\ bank_pincode_data' = EmptyODict
    /\ total_processed' = 0
    /\ UNCHANGED <<pureVars, excelVars, dbVars, savers, now, profile, input, cursor, files_left, run_started, response>>

\* datetime.now().year moves on
NewYear ==
    /\ now.year < FirstYear + YearSpan
    /\ now' = NewYearsDay(now.year + 1)
    /\ UNCHANGED <<pureVars, excelVars, dbVars, savers, runVars, store, response>>

\* GET /api/dlc-bank-pincode-data of dlc_api_endpoint.py
ApiGet ==
    /\ response' = [handler |-> "dlc_api_endpoint.py", body |-> api_get_dlc_bank_pincode_data(store)]
    /\ UNCHANGED <<pureVars, excelVars, dbVars, savers, now, runVars, store>>

\* GET /api/dlc-bank-pincode-data of app.py
AppGet ==
    /\ response' = [handler |-> "app.py", body |-> app_get_dlc_bank_pincode_data(store)]
    /\ UNCHANGED <<pureVars, excelVars, dbVars, savers, now, runVars, store>>

Next ==
    \/ StartRun \/ ReadExcel \/ ProcessRow \/ EndOfFile \/ Finish \/ NewYear
    \/ ApiGet \/ AppGet

Spec == Init /\ [][Next]_vars

(***************************************************************************)
(* The pipeline run over a source folder whose files are fixed in advance, *)
(* run twice.  A file is unreadable or holds a sequence of rows.           *)
(***************************************************************************)
RerunRows ==
    { [BRANCH_PINCODE |-> Cell(P302001), PENSIONER_PINCODE |-> Cell(P302001), YOB |-> Cell(Y1964)],
      [BRANCH_PINCODE |-> Cell(P302017f), PENSIONER_PINCODE |-> NaN, YOB |-> Cell(Y1965f)],
      [BRANCH_PINCODE |-> Cell(P4000), PENSIONER_PINCODE |-> Cell(P302001), YOB |-> Cell(Yabc)] }

RerunFiles ==
    {[readable |-> FALSE, rows |-> <<>>]}
        \cup [readable : {TRUE}, rows : SeqsUpTo(RerunRows, MaxRerunRows)]

InitRerun ==
    /\ IdlePure
    /\ now = NewYearsDay(FirstYear)
    /\ profile = [name |-> "fixed"]
    /\ input \in SeqsUpTo(RerunFiles, MaxRerunFiles)
    /\ cursor = [file |-> 0, row |-> 0]
    /\ pc = "idle"
    /\ runs_done = 0
    /\ files_left = 0
    /\ rows_read = 0
    /\ bank_pincode_data = EmptyODict
    /\ total_processed = 0
    /\ produced = <<>>
    /\ run_started = <<>>
    /\ IdleExcel
    /\ IdleDb
    /\ savers = NoSavers
    /\ store = EmptyDict
    /\ response = NoResponse

\* lines 66-75, on the fixed folder (which exists)
StartRunFixed ==
    /\ pc \in {"idle", "done"} /\ runs_done < 2
    /\ pc' = "next_file"
    /\ files_left' = Len(input)
    /\ cursor' = [file |-> 0, row |-> 0]
    /\ rows_read' = 0
    /\ bank_pincode_data' = InitialBuckets
    /\ total_processed' = 0
    /\ run_started' = Append(run_started, now.year)
    /\ UNCHANGED <<pureVars, excelVars, dbVars, savers, now, profile, input, runs_done, produced, store, response>>

\* lines 78-88 and 131-133
ReadExcelFixed ==
    /\ pc = "next_file" /\ files_left > 0
    /\ files_left' = files_left - 1
    /\ cursor' = [file |-> cursor.file + 1, row |-> 0]
    /\ pc' = IF input[cursor.file + 1].readable THEN "rows" ELSE "next_file"
    /\ UNCHANGED <<pureVars, excelVars, dbVars, savers, now, profile, input, runs_done, rows_read, bank_pincode_data,
                   total_processed, produced, run_started, store, response>>

\* lines 91-127
ProcessRowFixed ==
    /\ pc = "rows" /\ cursor.row < Len(input[cursor.file].rows)
    /\ RowStep(input[cursor.file].rows[cursor.row + 1])
    /\ cursor' = [cursor EXCEPT !.row = @ + 1]
    /\ rows_read' = rows_read + 1
    /\ UNCHANGED <<pureVars, excelVars, dbVars, savers, now, profile, input, pc, runs_done, files_left, produced,
                   run_started, store, response>>

\* line 129
EndOfFileFixed ==
    /\ pc = "rows" /\ cursor.row = Len(input[cursor.file].rows)
    /\ pc' = "next_file"
    /\ UNCHANGED <<pureVars, excelVars, dbVars, savers, now, profile, input, cursor, runs_done, files_left, rows_read,
                   bank_pincode_data, total_processed, produced, run_started, savers, store, response>>

NextRerun ==
    StartRunFixed \/ ReadExcelFixed \/ ProcessRowFixed \/ EndOfFileFixed \/ Finish \/ NewYear

SpecRerun == InitRerun /\ [][NextRerun]_vars

(***************************************************************************)
(* Several processes in save_dlc_analysis_data on one folder, step by step *)
(* of its file operations, while the two handlers read.  open(name, 'w')   *)
(* creates the file or truncates it; json.dump then writes from offset 0   *)
(* of the process's own handle.                                            *)
(***************************************************************************)
Runs == 1..MaxRuns

\* the file after open(name, 'w')
Truncated == [complete |-> FALSE, data |-> [written |-> "nothing"]]

\* the file after a dump over what another handle wrote since the truncation
Overlaid == [complete |-> FALSE, data |-> [written |-> "overlaid"]]

\* the contents json.dump can leave behind
Dumped(files, name, data) ==
    IF files[name] = Truncated THEN {Content(data)} ELSE {Content(data), Overlaid}

NoDoc == [analysis_timestamp |-> <<>>]

IdleSaver ==
    [pc |-> "idle", bank_data |-> EmptyODict, total_processed |-> 0,
     stamp |-> NewYearsDay(FirstYear), complete_data |-> NoDoc]

\* the arguments of the call: what analyze_dlc_by_bank_pincode returned for a folder
\* of one file
SaveArguments ==
    { LET after == RowApplied([data |-> EmptyODict, total |-> 0], rows[1], FirstYear)
      IN  [bank_data |-> FinalData(after.data), total_processed |-> after.total]
      : rows \in {<<row>> : row \in RerunRows} }

\* line 215
timestamp(r) == FileTimestamp(savers[r].stamp)

InitStore ==
    /\ IdlePure
    /\ IdleRun
    /\ now = Instant(FirstYear, 1, 1, 0, 0, FirstSecond)
    /\ savers = [r \in Runs |-> IdleSaver]
    /\ store = EmptyDict
    /\ response = NoResponse

\* lines 213-215: the call and timestamp = datetime.now().strftime(...)
SaveBegin(r) ==
    /\ savers[r].pc = "idle"
    /\ \E arguments \in SaveArguments :
          savers' = [savers EXCEPT ![r] =
                        [pc |-> "stamped", bank_data |-> arguments.bank_data,
                         total_processed |-> arguments.total_processed,
                         stamp |-> now, complete_data |-> NoDoc]]
    /\ UNCHANGED <<pureVars, excelVars, dbVars, runVars, now, store, response>>

\* lines 218-226: complete_data (with a second reading of the clock) and the open
OpenAnalysis(r) ==
    /\ savers[r].pc = "stamped"
    /\ savers' = [savers EXCEPT ![r].pc = "analysis_open",
                                ![r].complete_data =
                                    CompleteData(savers[r].bank_data,
                                                 savers[r].total_processed, now)]
    /\ store' = WriteFile(store, AnalysisFile(timestamp(r)), Truncated)
    /\ UNCHANGED <<pureVars, excelVars, dbVars, runVars, now, response>>

\* line 227: json.dump and the close
DumpAnalysis(r) ==
    /\ savers[r].pc = "analysis_open"
    /\ savers' = [savers EXCEPT ![r].pc = "analysis_written"]
    /\ \E content \in Dumped(store, AnalysisFile(timestamp(r)), savers[r].complete_data) :
          store' = [store EXCEPT ![AnalysisFile(timestamp(r))] = content]
    /\ UNCHANGED <<pureVars, excelVars, dbVars, runVars, now, response>>

\* lines 230-237: the top 50 and the open of the second file
OpenTop(r) ==
    /\ savers[r].pc = "analysis_written"
    /\ savers' = [savers EXCEPT ![r].pc = "top_open"]
    /\ store' = WriteFile(store, TopFile(timestamp(r)), Truncated)
    /\ UNCHANGED <<pureVars, excelVars, dbVars, runVars, now, response>>

\* line 238 and the return
DumpTop(r) ==
    /\ savers[r].pc = "top_open"
    /\ savers' = [savers EXCEPT ![r].pc = "done"]
    /\ \E content \in Dumped(store, TopFile(timestamp(r)), TopData(savers[r].bank_data)) :
          store' = [store EXCEPT ![TopFile(timestamp(r))] = content]
    /\ UNCHANGED <<pureVars, excelVars, dbVars, runVars, now, response>>

\* the process is killed between an open and the end of its json.dump: the file
\* stays as it is
Kill(r) ==
    /\ savers[r].pc \in {"analysis_open", "top_open"}
    /\ savers' = [savers EXCEPT ![r].pc = "killed"]
    /\ UNCHANGED <<pureVars, excelVars, dbVars, runVars, now, store, response>>

\* a second passes
Tick ==
    /\ now.sec < LastSecond
    /\ now' = [now EXCEPT !.sec = @ + 1]
    /\ UNCHANGED <<pureVars, excelVars, dbVars, runVars, savers, store, response>>

NextStore ==
    \/ \E r \in Runs : SaveBegin(r)
    \/ \E r \in Runs : OpenAnalysis(r)
    \/ \E r \in Runs : DumpAnalysis(r)
    \/ \E r \in Runs : OpenTop(r)
    \/ \E r \in Runs : DumpTop(r)
    \/ \E r \in Runs : Kill(r)
    \/ Tick
    \/ ApiGet \/ AppGet

SpecStore == InitStore /\ [][NextStore]_vars

(***************************************************************************)
(* Runs of save_dlc_analysis_data one after another, each as a whole,      *)
(* while the clock moves through instants that carry every field of the    *)
(* time stamp from one digit to two or back to its start.                  *)
(***************************************************************************)
Instants ==
    << Instant(FirstYear, 9, 9, 9, 9, 9),
       Instant(FirstYear, 9, 9, 9, 9, 10),
       Instant(FirstYear, 9, 9, 9, 10, 0),
       Instant(FirstYear, 9, 9, 10, 0, 0),
       Instant(FirstYear, 9, 10, 0, 0, 0),
       Instant(FirstYear, 10, 1, 0, 0, 0),
       Instant(FirstYear + 1, 1, 1, 0, 0, 0) >>

\* t is before u
Before(t, u) ==
    \/ t.year < u.year
    \/ t.year = u.year /\ t.month < u.month
    \/ t.year = u.year /\ t.month = u.month /\ t.day < u.day
    \/ t.year = u.year /\ t.month = u.month /\ t.day = u.day /\ t.sec < u.sec

InitLatest ==
    /\ IdlePure
    /\ IdleRun
    /\ now = Instants[1]
    /\ savers = <<>>
    /\ store = EmptyDict
    /\ response = NoResponse

\* lines 213-238, at one reading of the clock
SaveRun ==
    /\ Len(savers) < MaxRuns
    /\ \E arguments \in SaveArguments :
          /\ store' = SaveAll(store, arguments.bank_data, arguments.total_processed, now)
          /\ savers' = Append(savers,
                 [pc |-> "done", bank_data |-> arguments.bank_data,
                  total_processed |-> arguments.total_processed, stamp |-> now,
                  complete_data |-> CompleteData(arguments.bank_data,
                                                 arguments.total_processed, now)])
    /\ UNCHANGED <<pureVars, excelVars, dbVars, runVars, now, response>>

\* time passes
ClockAdvance ==
    /\ \E i \in DOMAIN Instants : Before(now, Instants[i]) /\ now' = Instants[i]
    /\ UNCHANGED <<pureVars, excelVars, dbVars, runVars, savers, store, response>>

NextLatest == SaveRun \/ ClockAdvance \/ ApiGet \/ AppGet

SpecLatest == InitLatest /\ [][NextLatest]_vars

(***************************************************************************)
(* One run of dlc_bank_analysis_fixed.py that records in input what it     *)
(* met: per file whether pd.read_excel loaded it, and the rows it held.    *)
(* The source folder exists or not (profile.folder).                       *)
(***************************************************************************)
BatchRows ==
    { [BRANCH_PINCODE |-> Cell(P302017f), PENSIONER_PINCODE |-> NaN, YOB |-> Cell(Y1965f)],
      [BRANCH_PINCODE |-> Cell(P999999), PENSIONER_PINCODE |-> Cell(P302001), YOB |-> NaN],
      [BRANCH_PINCODE |-> Cell(P4000), PENSIONER_PINCODE |-> Cell(P302001), YOB |-> Cell(Y1964)],
      [BRANCH_PINCODE |-> NaN, PENSIONER_PINCODE |-> Cell(P302001), YOB |-> Cell(Y1964)],
      [BRANCH_PINCODE |-> Cell(P302001), PENSIONER_PINCODE |-> Cell(P380015f), YOB |-> Cell(Yabc)] }

InitBatch ==
    /\ IdlePure
    /\ now = NewYearsDay(FirstYear)
    /\ profile \in {[name |-> "batch", folder |-> "present"],
                    [name |-> "batch", folder |-> "missing"]}
    /\ input = <<>>
    /\ cursor = [file |-> 0, row |-> 0]
    /\ pc = "idle"
    /\ runs_done = 0
    /\ files_left = 0
    /\ rows_read = 0
    /\ bank_pincode_data = EmptyODict
    /\ total_processed = 0
    /\ produced = <<>>
    /\ run_started = <<>>
    /\ IdleExcel
    /\ IdleDb
    /\ savers = NoSavers
    /\ store = EmptyDict
    /\ response = NoResponse

\* lines 56-75 with a listing that takes a missing folder for an empty one
BatchStartEmptyListing ==
    /\ pc = "idle" /\ runs_done = 0
    /\ IF profile.folder = "missing"
       THEN files_left' = 0
       ELSE \E n \in 0..MaxBatchFiles : files_left' = n
    /\ pc' = "next_file"
    /\ rows_read' = 0
    /\ bank_pincode_data' = InitialBuckets
    /\ total_processed' = 0
    /\ UNCHANGED <<pureVars, excelVars, dbVars, savers, now, profile, input, cursor, runs_done,
                   produced, run_started, store, response>>

\* lines 244-259 and 56-75: os.listdir raises when the folder is missing, and
\* __main__ prints 'Analysis failed'
BatchStart ==
    /\ pc = "idle" /\ runs_done = 0
    /\ IF profile.folder = "missing"
       THEN /\ pc' = "failed"
            /\ UNCHANGED <<files_left, rows_read, bank_pincode_data, total_processed>>
       ELSE /\ \E n \in 0..MaxBatchFiles : files_left' = n
            /\ pc' = "next_file"
            /\ rows_read' = 0
            /\ bank_pincode_data' = InitialBuckets
            /\ total_processed' = 0
    /\ UNCHANGED <<pureVars, excelVars, dbVars, savers, now, profile, input, cursor, runs_done, produced,
                   run_started, store, response>>

\* lines 78-88 and 131-133: pd.read_excel loads the file or raises
BatchReadExcel ==
    /\ pc = "next_file" /\ files_left > 0
    /\ files_left' = files_left - 1
    /\ \E loaded \in BOOLEAN :
          /\ pc' = IF loaded THEN "rows" ELSE "next_file"
          /\ input' = Append(input, [readable |-> loaded, rows |-> <<>>])
    /\ UNCHANGED <<pureVars, excelVars, dbVars, savers, now, profile, cursor, runs_done, rows_read,
                   bank_pincode_data, total_processed, produced, run_started, store, response>>

\* lines 91-127
BatchProcessRow ==
    /\ pc = "rows" /\ rows_read < MaxBatchRows
    /\ \E row \in BatchRows :
          /\ RowStep(row)
          /\ input' = [input EXCEPT ![Len(input)].rows = Append(@, row)]
    /\ rows_read' = rows_read + 1
    /\ UNCHANGED <<pureVars, excelVars, dbVars, savers, now, profile, cursor, pc, runs_done, files_left,
                   produced, run_started, store, response>>

NextBatch == BatchStart \/ BatchReadExcel \/ BatchProcessRow \/ EndOfFile \/ Finish

SpecBatch == InitBatch /\ [][NextBatch]_vars

(***************************************************************************)
(* The pure-function harness: Init draws one call with its arguments, the  *)
(* action for the called function applies it.                              *)
(***************************************************************************)
PinChars == {"0", "1", "4", ".", "x", "-", " "}

PinStrings == SeqsUpTo(PinChars, MaxPinLen)

BirthYears == (FirstYear - MaxAge)..(FirstYear - MinAge)

\* completion counts of the buckets of a top-N call, in first-encounter order
BucketCounts == {30, 50}

TopNSizes ==
    {SmallN, top_pincodes_report_n, top_states_report_n, top_pincodes_saved_n,
     top_pincodes_per_state_n, top_pincodes_per_district_n}

PureCalls ==
    [fn : {"app.get_state_from_pincode", "dlc.get_state_from_pincode"}, pincode : PinStrings]
    \cup [fn : {"get_age_group"}, birth_year : BirthYears, current_year : Years]
    \cup [fn : {"top_n"}, counts : SeqsUpTo(BucketCounts, MaxBuckets), n : TopNSizes]

InitPure ==
    /\ call \in PureCalls
    /\ ret = Pending
    /\ IdleRun
    /\ IdleStore

CallAppState ==
    /\ call.fn = "app.get_state_from_pincode" /\ ret = Pending
    /\ ret' = Returned(app_get_state_from_pincode(call.pincode))
    /\ UNCHANGED <<call, excelVars, dbVars, now, runVars, savers, store, response>>

CallDlcState ==
    /\ call.fn = "dlc.get_state_from_pincode" /\ ret = Pending
    /\ ret' = Returned(dlc_get_state_from_pincode(call.pincode))
    /\ UNCHANGED <<call, excelVars, dbVars, now, runVars, savers, store, response>>

CallAgeGroup ==
    /\ call.fn = "get_age_group" /\ ret = Pending
    /\ ret' = Returned(get_age_group(call.birth_year, call.current_year))
    /\ UNCHANGED <<call, excelVars, dbVars, now, runVars, savers, store, response>>

\* the keys of a top-N call are 1..Len(counts): key i is the i-th first seen
CallTopN ==
    /\ call.fn = "top_n" /\ ret = Pending
    /\ ret' = LET items == [i \in DOMAIN call.counts |-> [key |-> i, count |-> call.counts[i]]]
                  top == TopN(items, call.n)
              IN  Returned([i \in DOMAIN top |-> top[i].key])
    /\ UNCHANGED <<call, excelVars, dbVars, now, runVars, savers, store, response>>

NextPure == CallAppState \/ CallDlcState \/ CallAgeGroup \/ CallTopN

SpecPure == InitPure /\ [][NextPure]_vars

(***************************************************************************)
(* C1: for every input string, get_state_from_pincode returns (it never    *)
(* raises) one of the declared state names or a sentinel.  app.py gives    *)
(* 'Unknown' when the first three characters do not parse as an integer    *)
(* and 'Other States' when they parse to a number in no range;             *)
(* dlc_bank_analysis_fixed.py gives 'Invalid Pincode' when the input is    *)
(* shorter than three characters or its prefix does not parse, and         *)
(* 'Other State' when the prefix parses to a number in no range.           *)
(***************************************************************************)
DeclaredNames(ranges) == {ranges[i].name : i \in DOMAIN ranges}

InNoRange(ranges, n) == \A i \in DOMAIN ranges : n < ranges[i].lo \/ n > ranges[i].hi

C1_StateClassifierTotal ==
    /\ (call.fn = "app.get_state_from_pincode" /\ HasReturned) =>
          LET n == ParseInt(Take(call.pincode, 3))
          IN  /\ ret.value \in DeclaredNames(app_state_ranges) \cup {"Other States", "Unknown"}
              /\ ~n.ok => ret.value = "Unknown"
              /\ (n.ok /\ InNoRange(app_state_ranges, n.val)) => ret.value = "Other States"
              /\ (n.ok /\ ~InNoRange(app_state_ranges, n.val)) =>
                     ret.value \in DeclaredNames(app_state_ranges)
    /\ (call.fn = "dlc.get_state_from_pincode" /\ HasReturned) =>
          LET n == ParseInt(Take(ReplaceDotZero(call.pincode), 3))
          IN  /\ ret.value \in DeclaredNames(dlc_state_ranges) \cup {"Other State", "Invalid Pincode"}
              /\ Len(call.pincode) < 3 => ret.value = "Invalid Pincode"
              /\ ~n.ok => ret.value = "Invalid Pincode"
              /\ (Len(ReplaceDotZero(call.pincode)) >= 3 /\ n.ok
                     /\ InNoRange(dlc_state_ranges, n.val)) => ret.value = "Other State"

\* a non-numeric input has been classified by app.py
C1_Witness ==
    /\ call.fn = "app.get_state_from_pincode"
    /\ call.pincode = <<"x", "4", "0">>
    /\ HasReturned /\ ret.value = "Unknown"

(***************************************************************************)
(* C2: get_age_group puts age = current_year - birth_year into exactly one *)
(* of the six buckets, the one whose interval contains the age; the        *)
(* intervals cover every integer age once.                                 *)
(***************************************************************************)
AgeBuckets == {"Below 60", "60-65", "66-70", "71-75", "76-80", "80+"}

BucketHas(name, a) ==
    CASE name = "Below 60" -> a < 60
      [] name = "60-65"    -> 60 <= a /\ a <= 65
      [] name = "66-70"    -> 66 <= a /\ a <= 70
      [] name = "71-75"    -> 71 <= a /\ a <= 75
      [] name = "76-80"    -> 76 <= a /\ a <= 80
      [] name = "80+"      -> a > 80

C2_AgeBucketsPartition ==
    (call.fn = "get_age_group" /\ HasReturned) =>
        LET age == call.current_year - call.birth_year
            holding == {b \in AgeBuckets : BucketHas(b, age)}
        IN  /\ Cardinality(holding) = 1
            /\ ret.value \in holding

\* birth year 1955 in 2024: age 69
C2_Witness ==
    /\ call.fn = "get_age_group"
    /\ call.birth_year = 1955 /\ call.current_year = 2024
    /\ HasReturned /\ ret.value = "66-70"

(***************************************************************************)
(* C6: a top-N projection returns min(N, number of buckets) keys, highest  *)
(* counts first, and keys with equal counts in first-encounter order.      *)
(***************************************************************************)
C6_TopNStable ==
    (call.fn = "top_n" /\ HasReturned) =>
        /\ Len(ret.value) = Min(call.n, Len(call.counts))
        /\ \A i \in DOMAIN ret.value : ret.value[i] \in DOMAIN call.counts
        /\ \A i, j \in DOMAIN ret.value : i < j =>
              /\ call.counts[ret.value[i]] >= call.counts[ret.value[j]]
              /\ call.counts[ret.value[i]] = call.counts[ret.value[j]] => ret.value[i] < ret.value[j]
        /\ \A k \in DOMAIN call.counts : k \notin Range(ret.value) =>
              \A i \in DOMAIN ret.value :
                  /\ call.counts[k] <= call.counts[ret.value[i]]
                  /\ call.counts[k] = call.counts[ret.value[i]] => ret.value[i] < k

\* counts [50,50,30] for keys first seen as 1,2,3: top-2 is [1,2]
C6_Witness ==
    /\ call.fn = "top_n"
    /\ call.counts = <<50, 50, 30>> /\ call.n = SmallN
    /\ HasReturned /\ ret.value = <<1, 2>>

(***************************************************************************)
(* What the rollup claims speak about: a 200 response of one of the two    *)
(* handlers and the document's buckets it was computed from.               *)
(***************************************************************************)
ApiAnswered == response.handler = "dlc_api_endpoint.py" /\ response.body.status = 200

AppAnswered == response.handler = "app.py" /\ response.body.status = 200

AllAgeGroups == AgeBuckets \cup {"Unknown"}

(***************************************************************************)
(* C3: in the bank-location rollup, for every state S of the document,     *)
(* state_wise_data[S].total_pensioners is the sum of total_dlc_completed   *)
(* over the bank pincodes whose state is S, and state_wise_data[S]         *)
(* .age_groups[a] is the sum of their age_groups[a].                       *)
(***************************************************************************)
C3_BankLocationConservation ==
    ApiAnswered =>
        LET bank == response.body.bank_pincode_data
            pins == Range(bank.keys)
            rolled == response.body.state_wise_data
            PinsOf(S) == {p \in pins : bank.at[p].state = S}
        IN  /\ DOMAIN rolled = {bank.at[p].state : p \in pins}
            /\ \A S \in DOMAIN rolled :
                  /\ rolled[S].total_pensioners =
                         SumOver(PinsOf(S), [p \in PinsOf(S) |-> bank.at[p].total_dlc_completed])
                  /\ \A a \in AllAgeGroups :
                         Get(rolled[S].age_groups, a, 0) =
                             SumOver(PinsOf(S), [p \in PinsOf(S) |-> Get(bank.at[p].age_groups, a, 0)])

\* a state rolled up from two bank pincodes
C3_Witness ==
    /\ ApiAnswered
    /\ LET bank == response.body.bank_pincode_data
       IN  \E p, q \in Range(bank.keys) :
               /\ p # q /\ bank.at[p].state = bank.at[q].state
               /\ response.body.state_wise_data[bank.at[p].state].total_pensioners >= 3

(***************************************************************************)
(* C4: in the residence rollup, for every bank pincode p, the counts       *)
(* redistributed from p (summed over residence states and age groups) are  *)
(* at most total_dlc_completed[p].  As claimed, the difference lies in     *)
(* [0, numAgeGroups).  As amended: the difference is the number of         *)
(* pensioners of p in excluded residence states plus a truncation loss in  *)
(* [0, residence states of p x age groups of p).                           *)
(***************************************************************************)
NumAgeGroups == Cardinality(AgeBuckets)

\* what the handler adds to the age groups of all states on behalf of one pincode
RedistributedFrom(data) ==
    LET acc == AppPincodeStep(EmptyDict, data, data.pensioner_states)
    IN  SumOver(DOMAIN acc, [S \in DOMAIN acc |-> SumValues(acc[S].age_groups)])

ExcludedFrom(data) ==
    LET out == {S \in DOMAIN data.pensioner_states : ~Redistributed(S)}
    IN  SumOver(out, [S \in out |-> data.pensioner_states[S]])

C4_DifferenceBelowNumAgeGroups ==
    AppAnswered =>
        LET bank == response.body.bank_pincode_data
        IN  \A p \in Range(bank.keys) :
                LET diff == bank.at[p].total_dlc_completed - RedistributedFrom(bank.at[p])
                IN  0 <= diff /\ diff < NumAgeGroups

C4_DifferenceBounds ==
    AppAnswered =>
        LET bank == response.body.bank_pincode_data
        IN  \A p \in Range(bank.keys) :
                LET data == bank.at[p]
                    diff == data.total_dlc_completed - RedistributedFrom(data)
                    loss == diff - ExcludedFrom(data)
                    pairs == Cardinality({S \in DOMAIN data.pensioner_states : Redistributed(S)})
                                 * Cardinality(DOMAIN data.age_groups)
                IN  /\ RedistributedFrom(data) <= data.total_dlc_completed
                    /\ 0 <= loss
                    /\ pairs = 0 => loss = 0
                    /\ pairs > 0 => loss < pairs

\* a pincode with excluded pensioners and a truncation loss
C4_Witness ==
    /\ AppAnswered
    /\ LET bank == response.body.bank_pincode_data
       IN  \E p \in Range(bank.keys) :
               /\ ExcludedFrom(bank.at[p]) > 0
               /\ bank.at[p].total_dlc_completed - RedistributedFrom(bank.at[p])
                      > ExcludedFrom(bank.at[p])

(***************************************************************************)
(* C5: in the residence rollup, bank pincode p adds                        *)
(* floor(age_groups[p][a] * pensioner_states[p][S] / total_dlc_completed[p])*)
(* to age group a of residence state S, and state_wise_data[S]             *)
(* .age_groups[a] is the sum of these over all bank pincodes; 40, 25 and   *)
(* 100 give 10.                                                            *)
(***************************************************************************)
C5_FloorRedistribution ==
    /\ ProportionalCount(40, 25, 100) = 10
    /\ AppAnswered =>
          LET bank == response.body.bank_pincode_data
              rolled == response.body.state_wise_data
              From(S) == {p \in Range(bank.keys) : S \in DOMAIN bank.at[p].pensioner_states}
              Share(p, S, a) ==
                  (Get(bank.at[p].age_groups, a, 0) * bank.at[p].pensioner_states[S])
                      \div bank.at[p].total_dlc_completed
          IN  \A S \in DOMAIN rolled :
                  \A a \in AllAgeGroups :
                      Get(rolled[S].age_groups, a, 0) =
                          SumOver(From(S), [p \in From(S) |-> Share(p, S, a)])

\* a state fed by two pincodes, one of them with a share that is cut
C5_Witness ==
    /\ AppAnswered
    /\ LET bank == response.body.bank_pincode_data
           rolled == response.body.state_wise_data
       IN  \E S \in DOMAIN rolled :
               \E p, q \in Range(bank.keys) :
                   /\ p # q
                   /\ S \in DOMAIN bank.at[p].pensioner_states
                   /\ S \in DOMAIN bank.at[q].pensioner_states
                   /\ \E a \in DOMAIN bank.at[p].age_groups :
                          (bank.at[p].age_groups[a] * bank.at[p].pensioner_states[S])
                              % bank.at[p].total_dlc_completed # 0

(***************************************************************************)
(* C7: two runs of analyze_dlc_by_bank_pincode over unchanged input files  *)
(* produce documents with identical bucket counts (C7_RerunIdentical).     *)
(* get_age_group reads the clock, so this is also stated for two runs      *)
(* with the clock's year the same from the start of the first to the end   *)
(* of the second (C7_RerunIdenticalWithinYear).                            *)
(***************************************************************************)
SameCounts(d, e) ==
    /\ d.bank_pincode_data.at = e.bank_pincode_data.at
    /\ d.total_records_processed = e.total_records_processed
    /\ d.total_bank_pincodes = e.total_bank_pincodes
    /\ d.total_dlc_completed = e.total_dlc_completed

C7_RerunIdentical ==
    Len(produced) = 2 => SameCounts(produced[1], produced[2])

C7_RerunIdenticalWithinYear ==
    (Len(produced) = 2 /\ pc = "done" /\ run_started[1] = now.year) =>
        SameCounts(produced[1], produced[2])

\* two runs in one year that counted rows
C7_Witness ==
    /\ Len(produced) = 2 /\ pc = "done" /\ run_started[1] = now.year
    /\ produced[2].total_records_processed >= 2
    /\ SameCounts(produced[1], produced[2])

(***************************************************************************)
(* C8: the query for the latest document answers 404 'No DLC analysis data *)
(* found' exactly when no dlc_bank_analysis_*.json document is stored; a   *)
(* latest document that cannot be read is not answered as not found.       *)
(***************************************************************************)
Handlers == {"dlc_api_endpoint.py", "app.py"}

Answer(handler, files) ==
    IF handler = "app.py" THEN app_get_dlc_bank_pincode_data(files)
    ELSE api_get_dlc_bank_pincode_data(files)

C8_NotFoundIffNoDocument ==
    \A handler \in Handlers :
        Answer(handler, store).status = 404 <=> AnalysisFiles(store) = {}

(***************************************************************************)
(* C9: when no run is in progress and the completed runs took their        *)
(* generation timestamps in distinct seconds, load_dlc_analysis_data       *)
(* returns the document of the run with the latest generation timestamp,   *)
(* and both handlers answer from that document.                            *)
(***************************************************************************)
Completed == {r \in DOMAIN savers : savers[r].pc = "done"}

Quiet == \A r \in DOMAIN savers : savers[r].pc \in {"idle", "done"}

DistinctSeconds ==
    \A r, q \in Completed : r # q => savers[r].stamp # savers[q].stamp

MostRecent ==
    CHOOSE r \in Completed :
        \A q \in Completed : q = r \/ Before(savers[q].stamp, savers[r].stamp)

C9_LatestIsMostRecent ==
    (Quiet /\ Completed # {} /\ DistinctSeconds) =>
        LET only == AnalysisFile(timestamp(MostRecent)) :> Content(savers[MostRecent].complete_data)
        IN  /\ load_dlc_analysis_data(store)
                  = [loaded |-> TRUE, data |-> savers[MostRecent].complete_data]
            /\ \A handler \in Handlers : Answer(handler, store) = Answer(handler, only)

\* two runs a second apart, in seconds 9 and 10, and a reader has read after both
C9_Witness ==
    /\ Quiet /\ Cardinality(Completed) >= 2 /\ DistinctSeconds
    /\ \E r, q \in Completed :
          /\ Second(savers[r].stamp) = 9
          /\ savers[q].stamp = [savers[r].stamp EXCEPT !.sec = @ + 1]
    /\ response.handler \in Handlers
    /\ response.body = Answer(response.handler, store)
    /\ response.body.status = 200

(***************************************************************************)
(* C10: a document a run has written keeps the content that run wrote, and *)
(* any two runs write documents of different names.                        *)
(***************************************************************************)
Written == {r \in DOMAIN savers : savers[r].pc \in {"analysis_written", "top_open", "done"}}

Opened == {r \in DOMAIN savers : savers[r].pc \in {"analysis_open", "analysis_written", "top_open", "done"}}

C10_RunsNeverConflict ==
    /\ \A r \in Written :
          store[AnalysisFile(timestamp(r))] = Content(savers[r].complete_data)
    /\ \A r, q \in Opened : r # q => timestamp(r) # timestamp(q)

(***************************************************************************)
(* C11: a read of the latest document while runs write, or after a run was *)
(* killed during its write, never answers with an error, and when a        *)
(* complete document is stored it answers 200 from a complete document.    *)
(***************************************************************************)
CompleteDocuments == {f \in AnalysisFiles(store) : store[f].complete}

C11_ReadsAlwaysSafe ==
    /\ \A handler \in Handlers :
          /\ Answer(handler, store).status \in {200, 404}
          /\ CompleteDocuments # {} => Answer(handler, store).status = 200
    /\ CompleteDocuments # {} =>
          /\ load_dlc_analysis_data(store).loaded
          /\ \E f \in CompleteDocuments : load_dlc_analysis_data(store).data = store[f].data

(***************************************************************************)
(* C12: whatever files fail to load and whatever rows raise, the buckets   *)
(* are the aggregation of exactly the rows that did not raise and pass the *)
(* skip test in the files that loaded, total_processed counts those rows,  *)
(* no such failure ends the run, and a finished run has saved that         *)
(* aggregation.                                                            *)
(***************************************************************************)
RECURSIVE AllRows(_)
AllRows(log) == IF Len(log) = 0 THEN <<>> ELSE log[1].rows \o AllRows(Tail(log))

BranchOf(row) == NormalizePincode(row.BRANCH_PINCODE)

AgeGroupOf(row) == get_age_group(BirthYearOf(row.YOB).val, now.year)

ResidenceOf(row) == dlc_get_state_from_pincode(NormalizePincode(row.PENSIONER_PINCODE))

\* data and total are what counting the rows of the record gives
Aggregates(data, total) ==
    LET rows == AllRows(input)
        counted == {i \in DOMAIN rows : RowOutcome(rows[i]) = "counted"}
        Of(k) == {i \in counted : BranchOf(rows[i]) = k}
    IN  /\ total = Cardinality(counted)
        /\ Range(data.keys) = {BranchOf(rows[i]) : i \in counted}
        /\ \A k \in Range(data.keys) :
              /\ data.at[k].total_dlc_completed = Cardinality(Of(k))
              /\ data.at[k].state = dlc_get_state_from_pincode(k)
              /\ DOMAIN data.at[k].age_groups = {AgeGroupOf(rows[i]) : i \in Of(k)}
              /\ \A a \in DOMAIN data.at[k].age_groups :
                    data.at[k].age_groups[a]
                        = Cardinality({i \in Of(k) : AgeGroupOf(rows[i]) = a})
              /\ DOMAIN data.at[k].pensioner_states = {ResidenceOf(rows[i]) : i \in Of(k)}
              /\ \A st \in DOMAIN data.at[k].pensioner_states :
                    data.at[k].pensioner_states[st]
                        = Cardinality({i \in Of(k) : ResidenceOf(rows[i]) = st})

C12_PartialFailure ==
    /\ pc \in {"next_file", "rows"} => Aggregates(bank_pincode_data, total_processed)
    /\ pc = "done" =>
          /\ Aggregates(produced[1].bank_pincode_data, produced[1].total_records_processed)
          /\ AnalysisFile(FileTimestamp(now)) \in DOMAIN store
          /\ store[AnalysisFile(FileTimestamp(now))] = Content(produced[1])
    /\ profile.folder = "present" => pc # "failed"

\* a finished run that met a file that failed to load, and a row that raised with a
\* counted row after it
C12_Witness ==
    /\ pc = "done"
    /\ \E f \in DOMAIN input : ~input[f].readable
    /\ \E f \in DOMAIN input :
          \E i, j \in DOMAIN input[f].rows :
              /\ i < j
              /\ RowOutcome(input[f].rows[i]) = "raised"
              /\ RowOutcome(input[f].rows[j]) = "counted"

(***************************************************************************)
(* C14: a row whose branch pincode has at least 6 characters is never      *)
(* dropped because of its birth year: with YOB missing or not parsable as  *)
(* a number it is counted with the birth year 1960, and a YOB such as      *)
(* "1960.0" is counted as that year.                                       *)
(***************************************************************************)
\* the birth year the row is to be counted with
BirthYearWithFallback(cell) ==
    IF cell.na \/ ~IntOfFloat(cell.text).ok THEN default_birth_year
    ELSE IntOfFloat(cell.text).val

\* the buckets count every row of kept, and count it with that birth year
CountsWithFallback(kept) ==
    LET rows == AllRows(input)
    IN  /\ total_processed = Cardinality(kept)
        /\ \A i \in kept : BranchOf(rows[i]) \in DOMAIN bank_pincode_data.at
        /\ \A k \in DOMAIN bank_pincode_data.at :
              /\ bank_pincode_data.at[k].total_dlc_completed
                    = Cardinality({i \in kept : BranchOf(rows[i]) = k})
              /\ \A a \in DOMAIN bank_pincode_data.at[k].age_groups :
                    bank_pincode_data.at[k].age_groups[a]
                        = Cardinality({i \in kept :
                              /\ BranchOf(rows[i]) = k
                              /\ get_age_group(BirthYearWithFallback(rows[i].YOB), now.year) = a})

LongBranchRows == {i \in DOMAIN AllRows(input) : Len(BranchOf(AllRows(input)[i])) >= 6}

C14_NeverDroppedForBirthYear ==
    pc \in {"next_file", "rows"} => CountsWithFallback(LongBranchRows)

\* what holds: the fallback is used for a missing YOB only; a row whose YOB is
\* present and not a number is dropped
C14_DroppedWhenUnparsable ==
    pc \in {"next_file", "rows"} =>
        CountsWithFallback({i \in LongBranchRows :
                               LET cell == AllRows(input)[i].YOB
                               IN  cell.na \/ IntOfFloat(cell.text).ok})

\* the run has read its last row; among its rows with a long branch pincode are one
\* with a missing YOB, one whose YOB is "1965.0" and one whose YOB is not a number
C14_Witness ==
    LET rows == AllRows(input)
    IN  /\ pc = "next_file" /\ files_left = 0
        /\ \E i \in LongBranchRows : rows[i].YOB.na
        /\ \E i \in LongBranchRows : ~rows[i].YOB.na /\ rows[i].YOB.text = Y1965f
        /\ \E i \in LongBranchRows : ~rows[i].YOB.na /\ ~IntOfFloat(rows[i].YOB.text).ok

(***************************************************************************)
(* C15: a row whose normalized branch pincode is empty or shorter than 6   *)
(* characters changes nothing: no bucket is created or incremented and     *)
(* total_processed is unchanged.  So every key of bank_pincode_data has at *)
(* least 6 characters.                                                     *)
(***************************************************************************)
ShortBranchRows == {row \in BatchRows : Len(BranchOf(row)) < 6}

\* the step is the loop body run on a row with a short branch pincode
ReadsShortBranchRow ==
    /\ pc = "rows"
    /\ Len(input') = Len(input)
    /\ LET before == input[Len(input)].rows
           after == input'[Len(input)].rows
       IN  /\ Len(after) = Len(before) + 1
           /\ after[Len(after)] \in ShortBranchRows

C15_ShortBranchChangesNothing ==
    /\ [](\A k \in DOMAIN bank_pincode_data.at : Len(k) >= 6)
    /\ [](\A i \in DOMAIN produced :
             \A k \in DOMAIN produced[i].bank_pincode_data.at : Len(k) >= 6)
    /\ [][ReadsShortBranchRow => UNCHANGED <<bank_pincode_data, total_processed>>]_vars

\* after a counted row, a row with a short branch pincode and a row with none have
\* been read
C15_Witness ==
    /\ pc = "rows"
    /\ total_processed >= 1
    /\ LET rows == input[Len(input)].rows
       IN  /\ Len(rows) >= 3
           /\ Len(BranchOf(rows[Len(rows) - 1])) \in 1..5
           /\ Len(BranchOf(rows[Len(rows)])) = 0

(***************************************************************************)
(* C19: when the source folder does not exist the run aborts with a        *)
(* failure diagnostic before it processes any row and stores no document,  *)
(* neither dlc_bank_analysis_*.json nor top_bank_pincodes_*.json; it never *)
(* writes an empty summary.                                                *)
(***************************************************************************)
C19_MissingFolderAborts ==
    profile.folder = "missing" =>
        /\ pc \in {"idle", "failed"}
        /\ DOMAIN store = {}
        /\ produced = <<>>
        /\ input = <<>>
        /\ rows_read = 0
        /\ total_processed = 0

\* the run over a missing folder has ended
C19_Witness == profile.folder = "missing" /\ pc = "failed"

(***************************************************************************)
(* One call of ExcelDataProcessor.process_excel_files, step by step.  The  *)
(* call records in input what it met: per file whether pd.read_excel       *)
(* loaded it, its columns, the rows iterated and whether one of them       *)
(* raised.                                                                 *)
(***************************************************************************)
MaxExcelFiles == 2   \* files in the folder of process_excel_files
MaxExcelRows == 2    \* rows iterated per file

ExcelRows ==
    { [PENSIONER_PINCODE |-> FloatCell(P302017f), BRANCH_PINCODE |-> FloatCell(P302017f),
       YOB |-> FloatCell(Y1965f)],
      [PENSIONER_PINCODE |-> StrCell(P302001), BRANCH_PINCODE |-> MissingCell,
       YOB |-> MissingCell],
      [PENSIONER_PINCODE |-> MissingCell, BRANCH_PINCODE |-> StrCell(P302001),
       YOB |-> StrCell(Yabc)],
      [PENSIONER_PINCODE |-> StrCell(P302001), BRANCH_PINCODE |-> StrCell(P302001),
       YOB |-> StrCell(Y1965f)] }

ExcelColumnSets == {ExcelColumns, ExcelColumns \ {"YOB"}}

InitExcel ==
    /\ IdlePure
    /\ IdleStore
    /\ profile = [name |-> "excel"]
    /\ input = <<>>
    /\ cursor = [file |-> 0, row |-> 0]
    /\ pc = "idle"
    /\ runs_done = 0
    /\ files_left = 0
    /\ rows_read = 0
    /\ bank_pincode_data = EmptyODict
    /\ total_processed = 0
    /\ produced = <<>>
    /\ run_started = <<>>
    /\ IdleExcel
    /\ IdleDb

\* lines 103-108
ExcelStart ==
    /\ pc = "idle"
    /\ \E n \in 0..MaxExcelFiles : files_left' = n
    /\ all_data' = <<>>
    /\ pc' = "next_file"
    /\ UNCHANGED <<pureVars, dbVars, now, savers, store, response, profile, input, cursor, runs_done,
                   rows_read, bank_pincode_data, total_processed, produced, run_started,
                   processed_data>>

\* lines 110-119 and 150-152: pd.read_excel loads the file or raises
ExcelReadFile ==
    /\ pc = "next_file" /\ files_left > 0
    /\ files_left' = files_left - 1
    /\ rows_read' = 0
    /\ \E loaded \in BOOLEAN, columns \in ExcelColumnSets :
          /\ pc' = IF loaded THEN "rows" ELSE "next_file"
          /\ input' = Append(input, [readable |-> loaded, columns |-> columns,
                                     rows |-> <<>>, raised |-> FALSE])
    /\ UNCHANGED <<pureVars, excelVars, dbVars, now, savers, store, response, profile, cursor,
                   runs_done, bank_pincode_data, total_processed, produced, run_started>>

\* lines 122-148 and 150-152: one row; an exception ends the file
ExcelRow ==
    /\ pc = "rows" /\ rows_read < MaxExcelRows
    /\ \E row \in ExcelRows :
          LET file_name == Len(input)
              record == pensioner_data(file_name, rows_read, input[file_name].columns, row)
          IN  /\ input' = [input EXCEPT ![file_name].rows = Append(@, row),
                                        ![file_name].raised = ~record.ok]
              /\ all_data' = IF record.ok THEN Append(all_data, record.val) ELSE all_data
              /\ pc' = IF record.ok THEN "rows" ELSE "next_file"
    /\ rows_read' = rows_read + 1
    /\ UNCHANGED <<pureVars, dbVars, now, savers, store, response, profile, cursor, runs_done,
                   files_left, bank_pincode_data, total_processed, produced, run_started,
                   processed_data>>

\* line 122: the file has no more rows
ExcelEndOfFile ==
    /\ pc = "rows"
    /\ pc' = "next_file"
    /\ UNCHANGED <<pureVars, excelVars, dbVars, now, savers, store, response, profile, input, cursor,
                   runs_done, files_left, rows_read, bank_pincode_data, total_processed,
                   produced, run_started>>

\* lines 154-155 and 157-211
ExcelAnalyze ==
    /\ pc = "next_file" /\ files_left = 0
    /\ processed_data' = analyze_data(all_data, now)
    /\ pc' = "done"
    /\ UNCHANGED <<pureVars, dbVars, now, savers, store, response, profile, input, cursor, runs_done,
                   files_left, rows_read, bank_pincode_data, total_processed, produced,
                   run_started, all_data>>

NextExcel == ExcelStart \/ ExcelReadFile \/ ExcelRow \/ ExcelEndOfFile \/ ExcelAnalyze

SpecExcel == InitExcel /\ [][NextExcel]_vars

(***************************************************************************)
(* C13: a file whose processing raises is skipped entirely: all_data holds *)
(* no record of it, and the returned analysis is the analysis of the       *)
(* records of the files processed without an exception.                    *)
(***************************************************************************)
RECURSIVE RecordsOf(_, _, _)
RecordsOf(file_name, file, done) ==
    IF done = Len(file.rows) THEN <<>>
    ELSE <<pensioner_data(file_name, done, file.columns, file.rows[done + 1]).val>>
         \o RecordsOf(file_name, file, done + 1)

RECURSIVE RecordsOfCleanFiles(_, _)
RecordsOfCleanFiles(log, file_name) ==
    IF file_name > Len(log) THEN <<>>
    ELSE (IF log[file_name].readable /\ ~log[file_name].raised
          THEN RecordsOf(file_name, log[file_name], 0) ELSE <<>>)
         \o RecordsOfCleanFiles(log, file_name + 1)

C13_FailedFileSkippedEntirely ==
    pc = "done" =>
        /\ all_data = RecordsOfCleanFiles(input, 1)
        /\ processed_data = analyze_data(RecordsOfCleanFiles(input, 1), now)

\* every record is kept from the moment it is appended: of a file that raised, the
\* rows before the raising one
RECURSIVE RecordsKept(_, _)
RecordsKept(log, file_name) ==
    IF file_name > Len(log) THEN <<>>
    ELSE (LET file == log[file_name]
              kept == IF file.raised
                      THEN [file EXCEPT !.rows = SubSeq(@, 1, Len(@) - 1)] ELSE file
          IN  RecordsOf(file_name, kept, 0))
         \o RecordsKept(log, file_name + 1)

C13_RecordsBeforeFailureKept ==
    /\ pc # "idle" => all_data = RecordsKept(input, 1)
    /\ pc = "done" => processed_data = analyze_data(all_data, now)

\* the call returned after a file raised on its second row
C13_Witness ==
    /\ pc = "done"
    /\ \E f \in DOMAIN input : input[f].raised /\ Len(input[f].rows) >= 2

(***************************************************************************)
(* The two handlers over one stored document: the folder holds the         *)
(* document of one finished run, and GET /api/dlc-bank-pincode-data is     *)
(* served by either file.  The run's rows give bank states and residence   *)
(* states inside the declared ranges and both sentinels of                 *)
(* get_state_from_pincode on either side.                                  *)
(***************************************************************************)
MaxRollupRows == 3   \* rows of the run that wrote the stored document

Px02001 == <<"x", "0", "2", "0", "0", "1">>

RollupRows ==
    { [BRANCH_PINCODE |-> Cell(P302001), PENSIONER_PINCODE |-> Cell(P302001), YOB |-> Cell(Y1964)],
      [BRANCH_PINCODE |-> Cell(P302017f), PENSIONER_PINCODE |-> NaN, YOB |-> Cell(Y1965f)],
      [BRANCH_PINCODE |-> Cell(P999999), PENSIONER_PINCODE |-> Cell(P302001), YOB |-> NaN],
      [BRANCH_PINCODE |-> Cell(P380015f), PENSIONER_PINCODE |-> Cell(P999999), YOB |-> Cell(Y1964)],
      [BRANCH_PINCODE |-> Cell(Px02001), PENSIONER_PINCODE |-> Cell(P380015f), YOB |-> Cell(Y1964)],
      [BRANCH_PINCODE |-> Cell(P999999), PENSIONER_PINCODE |-> Cell(P4000), YOB |-> Cell(Y1965f)] }

\* the row loop over a whole sheet
RECURSIVE RowsApplied(_, _, _)
RowsApplied(acc, rows, current_year) ==
    IF Len(rows) = 0 THEN acc
    ELSE RowsApplied(RowApplied(acc, rows[1], current_year), Tail(rows), current_year)

\* the folder after a run over one sheet
StoredBy(rows, t) ==
    LET after == RowsApplied([data |-> EmptyODict, total |-> 0], rows, t.year)
    IN  SaveAll(EmptyDict, FinalData(after.data), after.total, t)

InitRollup ==
    /\ IdlePure
    /\ IdleRun
    /\ now = NewYearsDay(FirstYear)
    /\ savers = NoSavers
    /\ response = NoResponse
    /\ \E rows \in SeqsUpTo(RollupRows, MaxRollupRows) : store = StoredBy(rows, now)

NextRollup == ApiGet \/ AppGet

SpecRollup == InitRollup /\ [][NextRollup]_vars

(***************************************************************************)
(* C16: the residence rollup of app.py has no state key 'Invalid Pincode', *)
(* 'Other State' or '', and the counts of those residence buckets are      *)
(* added to no state; the bank-location rollup of dlc_api_endpoint.py has  *)
(* a key for every distinct state value of the document's bank pincodes,   *)
(* sentinels included, with their full counts.                             *)
(***************************************************************************)
Sentinels == {"Invalid Pincode", "Other State", ""}

C16_SentinelBuckets ==
    /\ AppAnswered =>
          LET bank == response.body.bank_pincode_data
              pins == Range(bank.keys)
              rolled == response.body.state_wise_data
              Living(S) == [p \in pins |-> Get(bank.at[p].pensioner_states, S, 0)]
          IN  /\ DOMAIN rolled \cap Sentinels = {}
              /\ DOMAIN rolled =
                     UNION {DOMAIN bank.at[p].pensioner_states : p \in pins} \ Sentinels
              /\ \A S \in DOMAIN rolled :
                     rolled[S].total_pensioners = SumOver(pins, Living(S))
    /\ ApiAnswered =>
          LET bank == response.body.bank_pincode_data
              pins == Range(bank.keys)
              rolled == response.body.state_wise_data
          IN  /\ \A p \in pins : bank.at[p].state \in DOMAIN rolled
              /\ \A S \in DOMAIN rolled :
                     rolled[S].total_pensioners =
                         SumOver({p \in pins : bank.at[p].state = S},
                                 [p \in pins |-> bank.at[p].total_dlc_completed])

\* app.py has answered from a document with pensioners in both sentinel residence
\* buckets, pensioners of a declared state, and a bank pincode in no declared state
C16_Witness ==
    LET bank == response.body.bank_pincode_data
    IN  /\ AppAnswered
        /\ \E p \in Range(bank.keys) : "Other State" \in DOMAIN bank.at[p].pensioner_states
        /\ \E p \in Range(bank.keys) : "Invalid Pincode" \in DOMAIN bank.at[p].pensioner_states
        /\ \E p \in Range(bank.keys) : bank.at[p].state \in Sentinels
        /\ DOMAIN response.body.state_wise_data # {}

(***************************************************************************)
(* C17: the state ranges of app.py's get_state_from_pincode are pairwise   *)
(* disjoint, so for every prefix n inside the declared range of a state X  *)
(* the function returns X.                                                 *)
(***************************************************************************)
AppStateReturned == call.fn = "app.get_state_from_pincode" /\ HasReturned

C17_DeclaredRangeDecides ==
    AppStateReturned =>
        LET pin_num == ParseInt(Take(call.pincode, 3))
        IN  pin_num.ok =>
                \A i \in DOMAIN app_state_ranges :
                    InRange(app_state_ranges[i], pin_num.val) =>
                        ret.value = app_state_ranges[i].name

\* what holds: of the declared ranges that contain n, the first one decides
C17_FirstDeclaredRangeDecides ==
    AppStateReturned =>
        LET pin_num == ParseInt(Take(call.pincode, 3))
        IN  pin_num.ok =>
                \A i \in DOMAIN app_state_ranges :
                    /\ InRange(app_state_ranges[i], pin_num.val)
                    /\ \A j \in 1..(i - 1) : ~InRange(app_state_ranges[j], pin_num.val)
                    => ret.value = app_state_ranges[i].name

\* a prefix that lies in two declared ranges has been classified
C17_Witness ==
    /\ AppStateReturned
    /\ LET pin_num == ParseInt(Take(call.pincode, 3))
       IN  /\ pin_num.ok
           /\ \E i, j \in DOMAIN app_state_ranges :
                 /\ i < j
                 /\ InRange(app_state_ranges[i], pin_num.val)
                 /\ InRange(app_state_ranges[j], pin_num.val)

(***************************************************************************)
(* The district classifiers of app.py and dlc_api_endpoint.py, and the     *)
(* state classifier of app.py, called on pincodes over the digits of the   *)
(* prefixes 370, 411, 711 and 400.                                         *)
(***************************************************************************)
MaxDistrictPinLen == 3   \* longest pincode string drawn from DistrictChars

DistrictChars == {"0", "1", "3", "4", "7", "x"}

P400001 == <<"4", "0", "0", "0", "0", "1">>

DistrictPins == SeqsUpTo(DistrictChars, MaxDistrictPinLen) \cup {P400001, P302001}

DistrictCalls ==
    [fn : {"app.get_district_from_pincode", "dlc_api_endpoint.get_district_from_pincode",
           "app.get_state_from_pincode"},
     pincode : DistrictPins]

InitDistrict ==
    /\ call \in DistrictCalls
    /\ ret = Pending
    /\ IdleRun
    /\ IdleStore

CallAppDistrict ==
    /\ call.fn = "app.get_district_from_pincode" /\ ret = Pending
    /\ ret' = Returned(app_get_district_from_pincode(call.pincode))
    /\ UNCHANGED <<call, excelVars, dbVars, now, runVars, savers, store, response>>

CallApiDistrict ==
    /\ call.fn = "dlc_api_endpoint.get_district_from_pincode" /\ ret = Pending
    /\ ret' = Returned(api_get_district_from_pincode(call.pincode))
    /\ UNCHANGED <<call, excelVars, dbVars, now, runVars, savers, store, response>>

NextDistrict == CallAppDistrict \/ CallApiDistrict \/ CallAppState

SpecDistrict == InitDistrict /\ [][NextDistrict]_vars

(***************************************************************************)
(* C18: for every pincode whose first three characters parse as an integer *)
(* n, get_district_from_pincode returns the label of the first range, in   *)
(* declaration order, that contains n, and 'Other District' when no range  *)
(* contains n.  In app.py 370 gives 'Rajkot', 411 'Mumbai', 711 'Kolkata', *)
(* and "400001" gives district 'Mumbai' and state 'Maharashtra'.           *)
(***************************************************************************)
DistrictRangesOf(fn) ==
    IF fn = "app.get_district_from_pincode" THEN app_district_ranges ELSE api_district_ranges

DistrictReturned ==
    /\ call.fn \in {"app.get_district_from_pincode",
                    "dlc_api_endpoint.get_district_from_pincode"}
    /\ HasReturned

PrefixOf(pincode) == ParseInt(Take(pincode, 3))

\* the first three characters of the pincode called are the digits of n
CalledOnPrefix(n) == PrefixOf(call.pincode).ok /\ PrefixOf(call.pincode).val = n

C18_FirstRangeInDeclarationOrder ==
    /\ (DistrictReturned /\ PrefixOf(call.pincode).ok) =>
          LET n == PrefixOf(call.pincode).val
              ranges == DistrictRangesOf(call.fn)
              containing == {i \in DOMAIN ranges : ranges[i].lo <= n /\ n <= ranges[i].hi}
          IN  /\ containing = {} => ret.value = "Other District"
              /\ \A i \in containing :
                    (\A j \in containing : i <= j) => ret.value = ranges[i].name
    /\ (call.fn = "app.get_district_from_pincode" /\ HasReturned) =>
          /\ CalledOnPrefix(370) => ret.value = "Rajkot"
          /\ CalledOnPrefix(411) => ret.value = "Mumbai"
          /\ CalledOnPrefix(711) => ret.value = "Kolkata"
          /\ call.pincode = P400001 => ret.value = "Mumbai"
    /\ (AppStateReturned /\ call.pincode = P400001) => ret.value = "Maharashtra"

\* app.py has classified a prefix that two of its ranges contain
C18_Witness ==
    /\ call.fn = "app.get_district_from_pincode" /\ HasReturned
    /\ CalledOnPrefix(711)
    /\ ret.value = "Kolkata"

(***************************************************************************)
(* The two pincode normalizations, of analyze_dlc_by_bank_pincode and of   *)
(* app.py's get_excel_pensioners, applied to a cell that is missing or     *)
(* holds any string over a digit, a zero and the decimal point.            *)
(***************************************************************************)
MaxCellLen == 5   \* longest cell text given to a normalization

CellChars == {"4", "0", "."}

NormalizeCalls ==
    [fn : {"analyze_dlc_by_bank_pincode.pincode", "get_excel_pensioners.pincode"},
     cell : {NaN} \cup {Cell(text) : text \in SeqsUpTo(CellChars, MaxCellLen)}]

InitNormalize ==
    /\ call \in NormalizeCalls
    /\ ret = Pending
    /\ IdleRun
    /\ IdleStore

CallNormalizePincode ==
    /\ call.fn = "analyze_dlc_by_bank_pincode.pincode" /\ ret = Pending
    /\ ret' = Returned(NormalizePincode(call.cell))
    /\ UNCHANGED <<call, excelVars, dbVars, now, runVars, savers, store, response>>

CallAppNormalizePincode ==
    /\ call.fn = "get_excel_pensioners.pincode" /\ ret = Pending
    /\ ret' = Returned(AppNormalizePincode(call.cell))
    /\ UNCHANGED <<call, excelVars, dbVars, now, runVars, savers, store, response>>

NextNormalize == CallNormalizePincode \/ CallAppNormalizePincode

SpecNormalize == InitNormalize /\ [][NextNormalize]_vars

(***************************************************************************)
(* C20: pincode normalization removes exactly one trailing ".0" when the   *)
(* string ends with it and is otherwise the identity, a missing value      *)
(* becoming the empty string: no characters other than a trailing ".0"     *)
(* are removed, in either file.                                            *)
(***************************************************************************)
DotZero == <<".", "0">>

EndsWithDotZero(text) == Len(text) >= 2 /\ SubSeq(text, Len(text) - 1, Len(text)) = DotZero

\* result is text without one trailing ".0", or text itself when it has none
OnlyTrailingDotZeroRemoved(text, result) ==
    IF EndsWithDotZero(text) THEN text = result \o DotZero ELSE result = text

NormalizeReturned ==
    /\ call.fn \in {"analyze_dlc_by_bank_pincode.pincode", "get_excel_pensioners.pincode"}
    /\ HasReturned

C20_OnlyTrailingDotZeroRemoved ==
    NormalizeReturned =>
        IF call.cell.na THEN ret.value = <<>>
        ELSE OnlyTrailingDotZeroRemoved(call.cell.text, ret.value)

\* ".0" occurs in text before its last two characters
HasInnerDotZero(text) ==
    \E i \in 1..(Len(text) - 2) : text[i] = "." /\ text[i + 1] = "0"

\* what holds: app.py removes one trailing ".0" only; analyze_dlc_by_bank_pincode
\* does so on the strings that hold ".0" nowhere else
C20_TrailingOnlyWithoutInnerDotZero ==
    NormalizeReturned =>
        IF call.cell.na THEN ret.value = <<>>
        ELSE (call.fn = "get_excel_pensioners.pincode" \/ ~HasInnerDotZero(call.cell.text))
                 => OnlyTrailingDotZeroRemoved(call.cell.text, ret.value)

\* analyze_dlc_by_bank_pincode has normalized a string with ".0" inside it
C20_Witness ==
    /\ call.fn = "analyze_dlc_by_bank_pincode.pincode" /\ HasReturned
    /\ ~call.cell.na
    /\ HasInnerDotZero(call.cell.text)
    /\ ~EndsWithDotZero(call.cell.text)

(***************************************************************************)
(* C21: in the residence rollup of app.py each state's pincode_counts      *)
(* records the pincodes that contributed to it: for every state S with     *)
(* total_pensioners[S] > 0, pincode_counts[S] is non-empty and its values  *)
(* sum to total_pensioners[S].                                             *)
(***************************************************************************)
C21_PincodeCountsSum ==
    AppAnswered =>
        LET rolled == response.body.state_wise_data
        IN  \A S \in DOMAIN rolled :
                rolled[S].total_pensioners > 0 =>
                    /\ DOMAIN rolled[S].pincode_counts # {}
                    /\ SumValues(rolled[S].pincode_counts) = rolled[S].total_pensioners

\* what holds: nothing is ever written to pincode_counts
C21_PincodeCountsEmpty ==
    AppAnswered =>
        LET rolled == response.body.state_wise_data
        IN  \A S \in DOMAIN rolled : DOMAIN rolled[S].pincode_counts = {}

\* app.py has answered with a state that two bank pincodes contributed to
C21_Witness ==
    /\ AppAnswered
    /\ LET bank == response.body.bank_pincode_data
           rolled == response.body.state_wise_data
       IN  \E S \in DOMAIN rolled :
               /\ rolled[S].total_pensioners >= 2
               /\ \E p, q \in Range(bank.keys) :
                     /\ p # q
                     /\ S \in DOMAIN bank.at[p].pensioner_states
                     /\ S \in DOMAIN bank.at[q].pensioner_states

(***************************************************************************)
(* app.py, the dashboard queries over the pensioners table.  A row of the  *)
(* table is its age and its authentication_method, which may be NULL; the  *)
(* other columns are read by neither query.                                *)
(***************************************************************************)
MinTableAge == 57    \* ages stored in the table range over MinTableAge..MaxTableAge
MaxTableAge == 83
MaxPensioners == 2   \* rows of the pensioners table

Null == "NULL"

\* lines 784-803; birth_year is an integer here, so int() does not raise
app_get_age_group(birth_year, current_year) ==
    LET age == current_year - birth_year
    IN  IF age < 60 THEN "Below 60"
        ELSE IF 60 <= age /\ age <= 65 THEN "60-65"
        ELSE IF 66 <= age /\ age <= 70 THEN "66-70"
        ELSE IF 71 <= age /\ age <= 75 THEN "71-75"
        ELSE IF 76 <= age /\ age <= 80 THEN "76-80"
        ELSE "80+"

\* lines 251-257 and 312-318: the CASE expression
SqlBetween(x, lo, hi) == lo <= x /\ x <= hi

SqlAgeGroup(age) ==
    IF SqlBetween(age, 60, 65) THEN "60-65"
    ELSE IF SqlBetween(age, 66, 70) THEN "66-70"
    ELSE IF SqlBetween(age, 71, 75) THEN "71-75"
    ELSE IF SqlBetween(age, 76, 80) THEN "76-80"
    ELSE "80+"

\* the labels of the CASE expression in the order of ORDER BY age_group
SqlAgeGroups == <<"60-65", "66-70", "71-75", "76-80", "80+">>

\* COUNT(*) over the rows of table that are among the selected ones
CountRows(table, selected) == Cardinality({i \in DOMAIN table : table[i] \in selected})

\* lines 249-267
app_get_age_distribution(table) ==
    LET Count(label) == CountRows(table, {row \in Range(table) : SqlAgeGroup(row.age) = label})
        groups == SelectSeq(SqlAgeGroups, LAMBDA label : Count(label) > 0)
    IN  [i \in DOMAIN groups |-> [ageGroup |-> groups[i], count |-> Count(groups[i])]]

\* lines 324-334: the condition added to the WHERE clause
AgeGroupFilter(age_group, age) ==
    IF age_group = Null \/ age_group = "" THEN TRUE
    ELSE IF age_group = "60-65" THEN SqlBetween(age, 60, 65)
    ELSE IF age_group = "66-70" THEN SqlBetween(age, 66, 70)
    ELSE IF age_group = "71-75" THEN SqlBetween(age, 71, 75)
    ELSE IF age_group = "76-80" THEN SqlBetween(age, 76, 80)
    ELSE IF age_group = "80+" THEN age > 80
    ELSE TRUE

\* lines 301-365
app_get_authentication_methods(table, age_group) ==
    LET Selected(row) ==
            row.authentication_method # Null /\ AgeGroupFilter(age_group, row.age)
        methods == {table[i].authentication_method : i \in {j \in DOMAIN table : Selected(table[j])}}
        Count(method, label) ==
            CountRows(table, {row \in Range(table) : /\ Selected(row)
                                                     /\ row.authentication_method = method
                                                     /\ SqlAgeGroup(row.age) = label})
        LabelsOf(method) == {label \in Range(SqlAgeGroups) : Count(method, label) > 0}
        age_breakdown == [m \in methods |-> [label \in LabelsOf(m) |-> Count(m, label)]]
    IN  [authenticationMethods |-> [m \in methods |-> SumValues(age_breakdown[m])],
         ageBreakdown |-> age_breakdown,
         totalCount |-> CountRows(table, {row \in Range(table) : row.authentication_method # Null}),
         filteredBy |-> age_group]

TableAges == MinTableAge..MaxTableAge

PensionerRows == [age : TableAges, authentication_method : {"IRIS", "Fingerprint", Null}]

\* the values of the age_group query parameter: absent, empty, the five labels of
\* the CASE expression, and the sixth bucket name
AgeGroupParams == {Null, "", "Below 60"} \cup Range(SqlAgeGroups)

InitDashboard ==
    /\ IdlePure
    /\ profile = [name |-> "none"]
    /\ input = NoInput
    /\ cursor = [file |-> 0, row |-> 0]
    /\ pc = "idle"
    /\ runs_done = 0
    /\ files_left = 0
    /\ rows_read = 0
    /\ bank_pincode_data = EmptyODict
    /\ total_processed = 0
    /\ produced = <<>>
    /\ run_started = <<>>
    /\ IdleExcel
    /\ IdleStore
    /\ pensioners \in SeqsUpTo(PensionerRows, MaxPensioners)

\* GET /api/dashboard/age-distribution
AgeDistributionGet ==
    /\ response' = [handler |-> "get_age_distribution",
                    body |-> [status |-> 200, rows |-> app_get_age_distribution(pensioners)]]
    /\ UNCHANGED <<pureVars, excelVars, dbVars, savers, now, runVars, store>>

\* GET /api/dashboard/authentication-methods
AuthenticationMethodsGet ==
    /\ \E age_group \in AgeGroupParams :
          response' = [handler |-> "get_authentication_methods",
                       body |-> [status |-> 200] @@
                                app_get_authentication_methods(pensioners, age_group)]
    /\ UNCHANGED <<pureVars, excelVars, dbVars, savers, now, runVars, store>>

NextDashboard == AgeDistributionGet \/ AuthenticationMethodsGet

SpecDashboard == InitDashboard /\ [][NextDashboard]_vars

(***************************************************************************)
(* C22: the age-distribution query, and the same CASE expression in        *)
(* get_authentication_methods, count every pensioner in the bucket that    *)
(* get_age_group's boundaries assign to their age, for every integer age,  *)
(* ages below 60 included.                                                 *)
(***************************************************************************)
AgeDistributionAnswered == response.handler = "get_age_distribution"

AuthenticationMethodsAnswered == response.handler = "get_authentication_methods"

\* the bucket get_age_group gives a pensioner of this age
BucketOfAge(age) == app_get_age_group(now.year - age, now.year)

\* the count the age-distribution response gives for a bucket name
DistributionCount(label) ==
    LET rows == response.body.rows
        at == {i \in DOMAIN rows : rows[i].ageGroup = label}
    IN  IF at = {} THEN 0 ELSE rows[CHOOSE i \in at : TRUE].count

SqlCountsFollowClassifier(table) ==
    /\ AgeDistributionAnswered =>
          \A label \in AgeBuckets :
              DistributionCount(label)
                  = CountRows(table, {row \in Range(table) : BucketOfAge(row.age) = label})
    /\ AuthenticationMethodsAnswered =>
          \A m \in DOMAIN response.body.ageBreakdown :
              \A label \in AgeBuckets :
                  Get(response.body.ageBreakdown[m], label, 0)
                      = CountRows(table,
                            {row \in Range(table) :
                                /\ row.authentication_method = m
                                /\ AgeGroupFilter(response.body.filteredBy, row.age)
                                /\ BucketOfAge(row.age) = label})

C22_SqlLabelIsClassifierBucket == SqlCountsFollowClassifier(pensioners)

\* what holds: the two agree on the tables whose ages are all 60 or more
C22_AgreeFromSixty ==
    (\A i \in DOMAIN pensioners : pensioners[i].age >= 60) =>
        SqlCountsFollowClassifier(pensioners)

\* the age distribution of a table with a pensioner below 60 has been served
C22_Witness ==
    /\ AgeDistributionAnswered
    /\ \E i \in DOMAIN pensioners : pensioners[i].age < 60
    /\ \E i \in DOMAIN pensioners : pensioners[i].age > 80

(***************************************************************************)
(* C28: in every response of get_authentication_methods, with or without   *)
(* an age_group filter, totalCount is the sum of the returned              *)
(* authenticationMethods counts, and each authenticationMethods[m] is the  *)
(* sum of ageBreakdown[m] over its age groups.                             *)
(***************************************************************************)
MethodIsSumOfBreakdown ==
    \A m \in DOMAIN response.body.authenticationMethods :
        response.body.authenticationMethods[m] = SumValues(response.body.ageBreakdown[m])

C28_TotalIsSumOfMethods ==
    AuthenticationMethodsAnswered =>
        /\ response.body.totalCount = SumValues(response.body.authenticationMethods)
        /\ MethodIsSumOfBreakdown

\* the values of age_group that add a condition to the query
RecognisedFilters == Range(SqlAgeGroups)

\* what holds: every method count is the sum of its breakdown; totalCount is
\* the sum of the method counts when no condition was added, and with a
\* condition it exceeds that sum by the pensioners the condition excluded
C28_TotalCountIgnoresFilter ==
    AuthenticationMethodsAnswered =>
        /\ MethodIsSumOfBreakdown
        /\ response.body.filteredBy \notin RecognisedFilters =>
               response.body.totalCount = SumValues(response.body.authenticationMethods)
        /\ response.body.totalCount
               = SumValues(response.body.authenticationMethods)
                 + CountRows(pensioners,
                       {row \in Range(pensioners) :
                           /\ row.authentication_method # Null
                           /\ ~AgeGroupFilter(response.body.filteredBy, row.age)})

\* a filtered response over a table with one authenticated pensioner inside the
\* filter and one outside it
C28_Witness ==
    /\ AuthenticationMethodsAnswered
    /\ response.body.filteredBy = "60-65"
    /\ SumValues(response.body.authenticationMethods) = 1
    /\ response.body.totalCount = 2

(***************************************************************************)
(* The pincode classifiers of app.py, dlc_api_endpoint.py and               *)
(* excel_processor.py, called on a six-digit pincode of every three-digit  *)
(* prefix 000..999.                                                        *)
(***************************************************************************)
DigitOf(d) ==
    CASE d = 0 -> "0" [] d = 1 -> "1" [] d = 2 -> "2" [] d = 3 -> "3" [] d = 4 -> "4"
      [] d = 5 -> "5" [] d = 6 -> "6" [] d = 7 -> "7" [] d = 8 -> "8" [] d = 9 -> "9"

\* the six-digit pincode n001 of the prefix n
PincodeOfPrefix(n) ==
    <<DigitOf(n \div 100), DigitOf((n \div 10) % 10), DigitOf(n % 10), "0", "0", "1">>

SixDigitPins == {PincodeOfPrefix(n) : n \in 0..999}

PincodeCalls ==
    [fn : {"app.get_district_from_pincode", "dlc_api_endpoint.get_district_from_pincode",
           "app.get_state_from_pincode", "excel_processor.detect_state_from_pincode",
           "get_excel_pensioners.locate"},
     pincode : SixDigitPins]

InitPincode ==
    /\ call \in PincodeCalls
    /\ ret = Pending
    /\ IdleRun
    /\ IdleStore

CallDetectState ==
    /\ call.fn = "excel_processor.detect_state_from_pincode" /\ ret = Pending
    /\ ret' = Returned(detect_state_from_pincode(call.pincode))
    /\ UNCHANGED <<call, excelVars, dbVars, now, runVars, savers, store, response>>

\* app.py lines 503 and 505: the state and the district of one pincode
CallLocate ==
    /\ call.fn = "get_excel_pensioners.locate" /\ ret = Pending
    /\ ret' = Returned([state |-> app_get_state_from_pincode(call.pincode),
                        district |-> app_get_district_from_pincode(call.pincode)])
    /\ UNCHANGED <<call, excelVars, dbVars, now, runVars, savers, store, response>>

NextPincode ==
    CallAppDistrict \/ CallApiDistrict \/ CallAppState \/ CallDetectState \/ CallLocate

SpecPincode == InitPincode /\ [][NextPincode]_vars

(***************************************************************************)
(* C23: in app.py every pincode that get_district_from_pincode gives a     *)
(* named district (neither 'Other District' nor 'Unknown District') is     *)
(* given a named state (neither 'Other States' nor 'Unknown') by           *)
(* get_state_from_pincode: every district range lies inside a state range. *)
(***************************************************************************)
Located == call.fn = "get_excel_pensioners.locate" /\ HasReturned

NamedDistrict(d) == d \notin {"Other District", "Unknown District"}

NamedState(st) == st \notin {"Other States", "Unknown"}

C23_NamedDistrictHasNamedState ==
    Located => (NamedDistrict(ret.value.district) => NamedState(ret.value.state))

\* what holds: the districts found without a state are 'Rajkot' and 'Jamnagar',
\* on the prefixes 360..375, below app.py's Gujarat range 380..396
C23_OnlyRajkotAndJamnagarStateless ==
    (Located /\ NamedDistrict(ret.value.district) /\ ~NamedState(ret.value.state)) =>
        /\ ret.value.district \in {"Rajkot", "Jamnagar"}
        /\ PrefixOf(call.pincode).val \in 360..375

C23_Witness ==
    /\ Located
    /\ ret.value.district = "Jamnagar"
    /\ ret.value.state = "Other States"

(***************************************************************************)
(* C29: with no mapping loaded, excel_processor.py's                       *)
(* detect_state_from_pincode returns for every six-digit numeric pincode   *)
(* the state app.py's get_state_from_pincode returns ("400001" gives       *)
(* 'Maharashtra'), and 'Other States' only when no range contains the      *)
(* prefix.                                                                 *)
(***************************************************************************)
StateDetected == call.fn = "excel_processor.detect_state_from_pincode" /\ HasReturned

C29_DetectsAppState ==
    StateDetected =>
        /\ ret.value = app_get_state_from_pincode(call.pincode)
        /\ call.pincode = P400001 => ret.value = "Maharashtra"

\* what holds: the three-digit prefix is below every six-digit bound, so every
\* pincode is detected as 'Other States'
C29_AlwaysOtherStates == StateDetected => ret.value = "Other States"

C29_Witness ==
    /\ StateDetected
    /\ call.pincode = P400001
    /\ ret.value = "Other States"
    /\ app_get_state_from_pincode(call.pincode) = "Maharashtra"

(***************************************************************************)
(* C30: every district label declared in get_district_from_pincode, of     *)
(* app.py and of dlc_api_endpoint.py, is returned for some pincode: no     *)
(* declared range is wholly covered by the ranges declared before it.      *)
(***************************************************************************)
DistrictOf(fn, pincode) ==
    IF fn = "app.get_district_from_pincode" THEN app_get_district_from_pincode(pincode)
    ELSE api_get_district_from_pincode(pincode)

\* the declared ranges of the function called that contain the prefix called
RangesCalled ==
    LET ranges == DistrictRangesOf(call.fn)
        n == PrefixOf(call.pincode).val
    IN  {i \in DOMAIN ranges : ranges[i].lo <= n /\ n <= ranges[i].hi}

\* some prefix of the i-th declared range is given that range's label
LabelReachable(fn, i) ==
    LET range == DistrictRangesOf(fn)[i]
    IN  \E m \in range.lo..range.hi : DistrictOf(fn, PincodeOfPrefix(m)) = range.name

C30_EveryLabelReachable ==
    DistrictReturned => \A i \in RangesCalled : LabelReachable(call.fn, i)

\* what holds: the labels never returned are 'Pune' in both files, its range
\* 411..414 lying inside Mumbai's 400..421, and 'Bhavnagar' in
\* dlc_api_endpoint.py, its range lying inside Rajkot's
C30_OnlyPuneAndBhavnagarDead ==
    DistrictReturned =>
        \A i \in RangesCalled :
            \/ LabelReachable(call.fn, i)
            \/ DistrictRangesOf(call.fn)[i].name = "Pune"
            \/ /\ call.fn = "dlc_api_endpoint.get_district_from_pincode"
               /\ DistrictRangesOf(call.fn)[i].name = "Bhavnagar"

\* a pincode of Pune's declared range has been classified, as 'Mumbai'
C30_Witness ==
    /\ DistrictReturned
    /\ CalledOnPrefix(411)
    /\ ret.value = "Mumbai"
    /\ \E i \in RangesCalled : DistrictRangesOf(call.fn)[i].name = "Pune"

(***************************************************************************)
(* C24: after every row of a run of analyze_dlc_by_bank_pincode, for each  *)
(* bank pincode p, total_dlc_completed[p] is the sum of age_groups[p] and  *)
(* the sum of pensioner_states[p] and is at least 1, and state[p] is       *)
(* get_state_from_pincode(p) and never changes; total_processed is the sum *)
(* of total_dlc_completed over all pincodes.  In the persisted document    *)
(* total_records_processed equals total_dlc_completed and                  *)
(* total_bank_pincodes is the number of keys of bank_pincode_data.         *)
(***************************************************************************)
BucketsAddUp(data, total) ==
    /\ \A p \in DOMAIN data.at :
          LET bucket == data.at[p]
          IN  /\ bucket.total_dlc_completed = SumValues(bucket.age_groups)
              /\ bucket.total_dlc_completed = SumValues(bucket.pensioner_states)
              /\ bucket.total_dlc_completed >= 1
              /\ bucket.state = dlc_get_state_from_pincode(p)
    /\ total = SumOver(DOMAIN data.at, [p \in DOMAIN data.at |-> data.at[p].total_dlc_completed])

DocumentAddsUp(doc) ==
    /\ doc.total_records_processed = doc.total_dlc_completed
    /\ doc.total_bank_pincodes = Cardinality(DOMAIN doc.bank_pincode_data.at)
    /\ BucketsAddUp(doc.bank_pincode_data, doc.total_records_processed)

\* a bucket of the run in progress keeps its state
BucketStatesKept ==
    \A p \in DOMAIN bank_pincode_data.at :
        p \in DOMAIN bank_pincode_data'.at =>
            bank_pincode_data'.at[p].state = bank_pincode_data.at[p].state

C24_BucketsAddUp ==
    /\ [](BucketsAddUp(bank_pincode_data, total_processed))
    /\ [](\A i \in DOMAIN produced : DocumentAddsUp(produced[i]))
    /\ [](\A name \in DOMAIN store :
             (name.kind = "dlc_bank_analysis" /\ store[name].complete) =>
                 DocumentAddsUp(store[name].data))
    /\ [][BucketStatesKept]_vars

\* a finished run whose document has two bank pincodes, one of them counted twice
\* with a residence state that is not the bank's
C24_Witness ==
    /\ pc = "done"
    /\ produced # <<>>
    /\ produced[1].total_bank_pincodes = 2
    /\ produced[1].total_records_processed >= 3
    /\ \E p \in DOMAIN produced[1].bank_pincode_data.at :
          LET bucket == produced[1].bank_pincode_data.at[p]
          IN  /\ bucket.total_dlc_completed >= 2
              /\ bucket.state \notin DOMAIN bucket.pensioner_states

(***************************************************************************)
(* C25: in the residence rollup of app.py, for every state S of the        *)
(* response, total_pensioners[S] is the sum over the bank pincodes p of    *)
(* pensioner_states[p][S] and is the sum of bank_locations[S]; the sum of  *)
(* age_groups[S] is at most total_pensioners[S].                           *)
(***************************************************************************)
C25_ResidenceRollupAddsUp ==
    AppAnswered =>
        LET bank == response.body.bank_pincode_data
            pins == Range(bank.keys)
            rolled == response.body.state_wise_data
            Living(S) == [p \in pins |-> Get(bank.at[p].pensioner_states, S, 0)]
        IN  \A S \in DOMAIN rolled :
                /\ rolled[S].total_pensioners = SumOver(pins, Living(S))
                /\ rolled[S].total_pensioners = SumValues(rolled[S].bank_locations)
                /\ SumValues(rolled[S].age_groups) <= rolled[S].total_pensioners

\* a state whose pensioners were served in two bank states, and whose age groups
\* lost a pensioner to the integer division
C25_Witness ==
    /\ AppAnswered
    /\ \E S \in DOMAIN response.body.state_wise_data :
          LET rolled == response.body.state_wise_data[S]
          IN  /\ rolled.total_pensioners >= 2
              /\ Cardinality(DOMAIN rolled.bank_locations) >= 2
              /\ SumValues(rolled.age_groups) < rolled.total_pensioners

(***************************************************************************)
(* app.py get_excel_pensioners (GET /pensioners).  The folder is a         *)
(* sequence of files, each one readable or not by pd.read_excel, with the  *)
(* rows of its sheet.  A row holds the four cells the handler reads.       *)
(***************************************************************************)
MaxPensionerFiles == 2   \* files in the folder of get_excel_pensioners
MaxPensionerRows == 2    \* rows of a file

BankSBI == <<"S", "B", "I">>

Amount1500f == <<"1", "5", "0", "0", ".", "0">>

Pnan == <<"n", "a", "n">>

PensionerSheetRows ==
    { [PENSIONER_PINCODE |-> StrCell(P302001), BRANCH_PINCODE |-> StrCell(P302001),
       BANK_NAME |-> StrCell(BankSBI), PENSION_AMOUNT |-> FloatCell(Amount1500f)],
      [PENSIONER_PINCODE |-> FloatCell(P302017f), BRANCH_PINCODE |-> MissingCell,
       BANK_NAME |-> MissingCell, PENSION_AMOUNT |-> MissingCell],
      [PENSIONER_PINCODE |-> StrCell(P400001), BRANCH_PINCODE |-> StrCell(P302001),
       BANK_NAME |-> StrCell(BankSBI), PENSION_AMOUNT |-> StrCell(Yabc)],
      [PENSIONER_PINCODE |-> MissingCell, BRANCH_PINCODE |-> StrCell(P302001),
       BANK_NAME |-> StrCell(BankSBI), PENSION_AMOUNT |-> StrCell(Yabc)],
      [PENSIONER_PINCODE |-> StrCell(P999999), BRANCH_PINCODE |-> StrCell(P302001),
       BANK_NAME |-> StrCell(BankSBI), PENSION_AMOUNT |-> FloatCell(Amount1500f)] }

\* line 538: str(cell); a missing cell is the float nan
StrOfCell(cell) == IF cell.na THEN Pnan ELSE cell.text

\* line 539: float(cell) if pd.notna(cell) else 0, as the whole part of the amount;
\* float() of a string that is not a decimal number raises ValueError
AmountOf(cell) ==
    IF cell.na THEN [ok |-> TRUE, val |-> 0] ELSE IntOfFloat(cell.text)

\* strftime('%Y-%m-%d')
DateStamp(t) == Pad4(t.year) \o <<"-">> \o Pad2(t.month) \o <<"-">> \o Pad2(t.day)

NewStateSummary == [total_pensioners |-> 0, districts |-> {}, pincodes |-> {}, banks |-> {}]

\* what the body of the row loop does with a row: "skipped" (the continue of line
\* 500 or 510), "raised" (except: continue) or "appended"
PensionerRowOutcome(row) ==
    LET pensioner_pincode == AppNormalizePincode(row.PENSIONER_PINCODE)
        pensioner_state == app_get_state_from_pincode(pensioner_pincode)
    IN  IF pensioner_pincode = <<>> \/ pensioner_pincode = Pnan THEN "skipped"
        ELSE IF pensioner_state \in {"Unknown", "Other States"} THEN "skipped"
        ELSE IF ~AmountOf(row.PENSION_AMOUNT).ok THEN "raised"
        ELSE "appended"

\* lines 513-526: the update of state_summary
SummaryCounted(state_summary, row) ==
    LET pensioner_pincode == AppNormalizePincode(row.PENSIONER_PINCODE)
        pensioner_state == app_get_state_from_pincode(pensioner_pincode)
        old == GetOr(state_summary, pensioner_state, NewStateSummary)
        new == [total_pensioners |-> old.total_pensioners + 1,
                districts |-> old.districts \cup {app_get_district_from_pincode(pensioner_pincode)},
                pincodes |-> old.pincodes \cup {pensioner_pincode},
                banks |-> IF row.BANK_NAME.na THEN old.banks
                          ELSE old.banks \cup {row.BANK_NAME.text}]
    IN  Put(state_summary, pensioner_state, new)

\* lines 529-541: the pensioner record
PensionerRecord(row, file_index, index, count, t) ==
    LET pensioner_pincode == AppNormalizePincode(row.PENSIONER_PINCODE)
        branch_pincode == AppNormalizePincode(row.BRANCH_PINCODE)
    IN  [id |-> <<file_index, index>>,
         name |-> count + 1,
         pensioner_pincode |-> pensioner_pincode,
         branch_pincode |-> branch_pincode,
         pensioner_state |-> app_get_state_from_pincode(pensioner_pincode),
         branch_state |-> app_get_state_from_pincode(branch_pincode),
         pensioner_district |-> app_get_district_from_pincode(pensioner_pincode),
         branch_district |-> app_get_district_from_pincode(branch_pincode),
         bank |-> StrOfCell(row.BANK_NAME),
         amount |-> AmountOf(row.PENSION_AMOUNT).val,
         verification_date |-> DateStamp(t)]

\* lines 487-546: the loop body.  The summary is updated on lines 522-526, before
\* the record is built on lines 529-541, where float() may raise.
PensionerRow(acc, row, file_index, index, t) ==
    LET outcome == PensionerRowOutcome(row)
    IN  IF outcome = "skipped" THEN acc
        ELSE IF outcome = "raised"
        THEN [acc EXCEPT !.state_summary = SummaryCounted(acc.state_summary, row)]
        ELSE [pensioners |-> Append(acc.pensioners,
                                    PensionerRecord(row, file_index, index,
                                                    Len(acc.pensioners), t)),
              state_summary |-> SummaryCounted(acc.state_summary, row)]

\* line 486: the loop over df.iterrows(), index counting from 0
RECURSIVE PensionerRowsFrom(_, _, _, _, _)
PensionerRowsFrom(acc, rows, file_index, index, t) ==
    IF index >= Len(rows) THEN acc
    ELSE PensionerRowsFrom(PensionerRow(acc, rows[index + 1], file_index, index, t),
                           rows, file_index, index + 1, t)

\* lines 477-550: the loop over the files; a file that pd.read_excel cannot read
\* is passed over
RECURSIVE PensionerFilesFrom(_, _, _, _)
PensionerFilesFrom(acc, files, file_index, t) ==
    IF file_index >= Len(files) THEN acc
    ELSE LET file == files[file_index + 1]
             after == IF file.readable
                      THEN PensionerRowsFrom(acc, file.rows, file_index, 0, t)
                      ELSE acc
         IN  PensionerFilesFrom(after, files, file_index + 1, t)

\* lines 554-564
FinalStateSummary(state_summary) ==
    [state \in DOMAIN state_summary |->
        [total_pensioners |-> state_summary[state].total_pensioners,
         total_districts |-> Cardinality(state_summary[state].districts),
         total_pincodes |-> Cardinality(state_summary[state].pincodes),
         total_banks |-> Cardinality(state_summary[state].banks),
         districts |-> state_summary[state].districts,
         pincodes |-> state_summary[state].pincodes,
         banks |-> state_summary[state].banks]]

\* lines 464-584, over a folder that exists
app_get_excel_pensioners(files, t) ==
    LET after == PensionerFilesFrom([pensioners |-> <<>>, state_summary |-> EmptyDict],
                                    files, 0, t)
    IN  [status |-> 200,
         pensioners |-> after.pensioners,
         total |-> Len(after.pensioners),
         processed_files |-> Len(files),
         state_summary |-> FinalStateSummary(after.state_summary)]

PensionerFiles ==
    {[readable |-> FALSE, rows |-> <<>>]}
        \cup [readable : {TRUE}, rows : SeqsUpTo(PensionerSheetRows, MaxPensionerRows)]

\* the folder is in input; nothing else has happened
InitPensioners ==
    /\ IdlePure
    /\ profile = [name |-> "none"]
    /\ input \in SeqsUpTo(PensionerFiles, MaxPensionerFiles)
    /\ cursor = [file |-> 0, row |-> 0]
    /\ pc = "idle"
    /\ runs_done = 0
    /\ files_left = 0
    /\ rows_read = 0
    /\ bank_pincode_data = EmptyODict
    /\ total_processed = 0
    /\ produced = <<>>
    /\ run_started = <<>>
    /\ IdleExcel
    /\ IdleDb
    /\ IdleStore

\* GET /pensioners
ExcelPensionersGet ==
    /\ response' = [handler |-> "get_excel_pensioners",
                    body |-> app_get_excel_pensioners(input, now)]
    /\ UNCHANGED <<pureVars, excelVars, dbVars, savers, now, runVars, store>>

NextPensioners == ExcelPensionersGet

SpecPensioners == InitPensioners /\ [][NextPensioners]_vars

(***************************************************************************)
(* C27: in get_excel_pensioners a row that is skipped, because it raised   *)
(* (a PENSION_AMOUNT that is not a number, for one) or was passed over, is *)
(* counted nowhere: the sum over the states S of                           *)
(* state_summary[S].total_pensioners is total, the number of records       *)
(* returned.                                                               *)
(***************************************************************************)
ExcelPensionersAnswered == response.handler = "get_excel_pensioners"

SummaryTotal ==
    SumOver(DOMAIN response.body.state_summary,
            [S \in DOMAIN response.body.state_summary |->
                response.body.state_summary[S].total_pensioners])

C27_SummaryIsTotal ==
    ExcelPensionersAnswered =>
        /\ response.body.total = Len(response.body.pensioners)
        /\ SummaryTotal = response.body.total

\* the rows of the readable files, in order
ReadableRows(files) ==
    AllRows(SelectSeq(files, LAMBDA file : file.readable))

\* what holds: total is the number of records returned, and the summary counts them
\* and also every row that raised at its PENSION_AMOUNT
C27_SummaryCountsRaisedRows ==
    ExcelPensionersAnswered =>
        LET rows == ReadableRows(input)
            Rows(outcome) == {i \in DOMAIN rows : PensionerRowOutcome(rows[i]) = outcome}
        IN  /\ response.body.total = Len(response.body.pensioners)
            /\ response.body.total = Cardinality(Rows("appended"))
            /\ SummaryTotal = response.body.total + Cardinality(Rows("raised"))

\* a response with a record returned and a row that raised after it was counted
C27_Witness ==
    /\ ExcelPensionersAnswered
    /\ response.body.total >= 1
    /\ SummaryTotal = response.body.total + 1
    /\ \E f \in DOMAIN input : ~input[f].readable

(***************************************************************************)
(* The pipeline run twice over one set of rows, which is rearranged        *)
(* between the runs: the files are permuted, the rows are permuted within  *)
(* and moved between the files.                                            *)
(***************************************************************************)
MaxOrderFiles == 2   \* files in the folder that is rearranged
MaxOrderRows == 2    \* rows of a file of that folder

OrderFiles ==
    {[readable |-> FALSE, rows |-> <<>>]}
        \cup [readable : {TRUE}, rows : SeqsUpTo(RerunRows, MaxOrderRows)]

OrderFolders == SeqsUpTo(OrderFiles, MaxOrderFiles)

\* how many times the row occurs in the folder
Occurrences(files, row) ==
    Cardinality({i \in DOMAIN AllRows(files) : AllRows(files)[i] = row})

\* the folders that hold the same rows, each as often
Rearrangements(files) ==
    {other \in OrderFolders : \A row \in RerunRows : Occurrences(other, row) = Occurrences(files, row)}

InitReorder ==
    /\ IdlePure
    /\ profile = [name |-> "fixed"]
    /\ input \in OrderFolders
    /\ cursor = [file |-> 0, row |-> 0]
    /\ pc = "idle"
    /\ runs_done = 0
    /\ files_left = 0
    /\ rows_read = 0
    /\ bank_pincode_data = EmptyODict
    /\ total_processed = 0
    /\ produced = <<>>
    /\ run_started = <<>>
    /\ IdleExcel
    /\ IdleDb
    /\ IdleStore

\* between the runs the folder is rearranged
Reorder ==
    /\ pc = "done" /\ runs_done = 1
    /\ input' \in Rearrangements(input) \ {input}
    /\ UNCHANGED <<pureVars, excelVars, dbVars, savers, now, profile, cursor, pc, runs_done,
                   files_left, rows_read, bank_pincode_data, total_processed, produced,
                   run_started, store, response>>

NextReorder ==
    \/ StartRunFixed \/ ReadExcelFixed \/ ProcessRowFixed \/ EndOfFileFixed \/ Finish
    \/ NewYear \/ Reorder

SpecReorder == InitReorder /\ [][NextReorder]_vars

(***************************************************************************)
(* C26: the bucket counts of analyze_dlc_by_bank_pincode do not depend on  *)
(* the processing order: for every permutation of the files and of the     *)
(* rows (equivalently, for every split of the rows into shards aggregated  *)
(* separately and merged by key-wise addition), total_dlc_completed,       *)
(* age_groups, pensioner_states and state per bank pincode and             *)
(* total_processed are the same.                                           *)
(***************************************************************************)
\* key-wise addition of two counters
AddCounters(c, d) ==
    [k \in DOMAIN c \cup DOMAIN d |-> Get(c, k, 0) + Get(d, k, 0)]

\* key-wise addition of the buckets of two shards
MergeBuckets(d, e) ==
    [p \in DOMAIN d \cup DOMAIN e |->
        IF p \notin DOMAIN e THEN d[p]
        ELSE IF p \notin DOMAIN d THEN e[p]
        ELSE [total_dlc_completed |-> d[p].total_dlc_completed + e[p].total_dlc_completed,
              age_groups |-> AddCounters(d[p].age_groups, e[p].age_groups),
              pensioner_states |-> AddCounters(d[p].pensioner_states, e[p].pensioner_states),
              state |-> d[p].state]]

\* the buckets and the total of one shard aggregated on its own in the given year
ShardOf(rows, year) == RowsApplied([data |-> EmptyODict, total |-> 0], rows, year)

\* every split of the folder's rows in two shards merges to the document
ShardsMergeTo(doc, files, year) ==
    LET rows == AllRows(files)
    IN  \A k \in 0..Len(rows) :
            LET head == ShardOf(SubSeq(rows, 1, k), year)
                tail == ShardOf(SubSeq(rows, k + 1, Len(rows)), year)
            IN  /\ MergeBuckets(head.data.at, tail.data.at) = doc.bank_pincode_data.at
                /\ head.total + tail.total = doc.total_records_processed

TwoOrdersRun == Len(produced) = 2 /\ pc = "done"

C26_OrderIndependent ==
    TwoOrdersRun =>
        /\ SameCounts(produced[1], produced[2])
        /\ ShardsMergeTo(produced[2], input, now.year)

\* what holds: the counts are the same in every order when the clock's year is the
\* same from the start of the first run to the end of the second
C26_OrderIndependentWithinYear ==
    (TwoOrdersRun /\ run_started[1] = now.year) =>
        /\ SameCounts(produced[1], produced[2])
        /\ ShardsMergeTo(produced[2], input, now.year)

\* two runs in one year over a folder that was rearranged in between; the second
\* met its buckets in another order than the first
C26_Witness ==
    /\ TwoOrdersRun /\ run_started[1] = now.year
    /\ produced[2].total_records_processed >= 2
    /\ produced[1].bank_pincode_data.keys # produced[2].bank_pincode_data.keys
    /\ SameCounts(produced[1], produced[2])

=============================================================================
